---- MODULE Spec2Model ----
(***************************************************************************)
(* A model of the jobly REST backend: the partial-update SQL helper, the   *)
(* authentication / authorization middleware, the jobs routes and the Job  *)
(* model's statements against the jobs and companies tables.               *)
(*                                                                         *)
(* JavaScript objects are ordered mappings: a sequence of [key, val]       *)
(* entries with pairwise distinct keys, in insertion order.  SQL text is a *)
(* sequence of string tokens.  The SQL value NULL / the JS value null is   *)
(* the number Null, which no column value otherwise takes.  Equity is kept *)
(* in hundredths (0.5 is 50, 1 is 100).                                    *)
(***************************************************************************)
EXTENDS Integers, Sequences, FiniteSets, TLC

VARIABLES
    sqlIn,      \* the arguments of a call of sqlForPartialUpdate
    sqlOut,     \* what that call returned or threw
    mwIn,       \* the (req, res) a middleware function is called with
    mwOut,      \* res.locals after the call and what next was called with
    companies,  \* the rows of table companies
    jobs,       \* the rows of table jobs
    nextId,     \* the next value of the jobs.id sequence
    request,    \* the HTTP request being served, None between requests
    resLocals,  \* res.locals of that request
    pc,         \* where the request or the model call stands
    stage,      \* the position in the route's middleware list
    resp,       \* the response sent, None before
    log,        \* the stages that ran for this request, in order
    call,       \* the model operation in progress: its name and arguments
    ret,        \* what the model operation returned or threw
    stmts,      \* the statements the model operation has sent to the database
    jobs0       \* the rows of jobs when the request or call began

sqlVars == <<sqlIn, sqlOut>>
mwVars == <<mwIn, mwOut>>
dbVars == <<companies, jobs, nextId>>
reqVars == <<request, resLocals, pc, stage, resp, log>>
callVars == <<call, ret, stmts, jobs0>>
appVars == <<companies, jobs, nextId, request, resLocals, pc, stage, resp, log,
             call, ret, stmts, jobs0>>
vars == <<sqlIn, sqlOut, mwIn, mwOut, companies, jobs, nextId, request, resLocals, pc,
          stage, resp, log, call, ret, stmts, jobs0>>

(***************************************************************************)
(* Bounds                                                                  *)
(***************************************************************************)
MaxFields == 3          \* most entries in a dataToUpdate object

Null == -1000

None == [tag |-> "none"]

(***************************************************************************)
(* helpers/sql.js                                                          *)
(***************************************************************************)
\* the field names the callers' data objects may carry
SqlKeys == {"title", "salary", "equity", "numEmployees", "logoUrl"}

\* two sample values per field
SqlValue(k, n) ==
    CASE k = "title"        -> IF n = 1 THEN "Dev" ELSE "New"
      [] k = "salary"       -> IF n = 1 THEN 100 ELSE 0
      [] k = "equity"       -> IF n = 1 THEN 50 ELSE Null
      [] k = "numEmployees" -> IF n = 1 THEN 1 ELSE 2
      [] OTHER              -> IF n = 1 THEN "http://c1.img" ELSE "http://new.img"

\* Job.update passes {} as jsToSql
JobJsToSql == <<>>

\* Company.update's jsToSql
CompanyJsToSql == [k \in {"numEmployees", "logoUrl"} |->
                     IF k = "numEmployees" THEN "num_employees" ELSE "logo_url"]

JsToSqlMaps == {JobJsToSql, CompanyJsToSql}

\* every column name a key can turn into
SqlColumns == SqlKeys \cup {"num_employees", "logo_url", "id", "company_handle",
                          "handle", "name", "description"}

\* Object.keys(o) and Object.values(o)
ObjectKeys(o) == [i \in 1..Len(o) |-> o[i].key]
ObjectValues(o) == [i \in 1..Len(o) |-> o[i].val]

\* the key as the column whatever the map says
ColumnFor_KeyOnly(jsToSql, colName) == colName

\* jsToSql[colName] || colName
ColumnFor(jsToSql, colName) ==
    IF colName \in DOMAIN jsToSql /\ jsToSql[colName] # ""
    THEN jsToSql[colName]
    ELSE colName

QuoteIdent(c) == "\"" \o c \o "\""
Placeholder(n) == "$" \o ToString(n)

\* the column text numbered with the 0-based index itself
ColText_ZeroBased(jsToSql, colName, idx) ==
    <<QuoteIdent(ColumnFor(jsToSql, colName)), "=", Placeholder(idx)>>

\* `"${jsToSql[colName] || colName}"=$${idx + 1}` , idx counting from 0
ColText(jsToSql, colName, idx) ==
    <<QuoteIdent(ColumnFor(jsToSql, colName)), "=", Placeholder(idx + 1)>>

\* cols.join(", ")
RECURSIVE Join(_)
Join(cols) ==
    IF Len(cols) = 0 THEN <<>>
    ELSE IF Len(cols) = 1 THEN cols[1]
    ELSE cols[1] \o <<",">> \o Join(Tail(cols))

\* sqlForPartialUpdate without the check for an empty object
sqlForPartialUpdate_NoEmptyCheck(dataToUpdate, jsToSql) ==
    LET keys == ObjectKeys(dataToUpdate)
        cols == [i \in 1..Len(keys) |-> ColText(jsToSql, keys[i], i - 1)]
    IN  [threw |-> "none",
         setCols |-> Join(cols),
         values |-> ObjectValues(dataToUpdate)]

sqlForPartialUpdate(dataToUpdate, jsToSql) ==
    LET keys == ObjectKeys(dataToUpdate)
        cols == [i \in 1..Len(keys) |-> ColText(jsToSql, keys[i], i - 1)]
    IN  IF Len(keys) = 0
        THEN [threw |-> "BadRequestError", setCols |-> <<>>, values |-> <<>>]
        ELSE [threw |-> "none",
              setCols |-> Join(cols),
              values |-> ObjectValues(dataToUpdate)]

(***************************************************************************)
(* Reading a SET list back, as the database does                           *)
(***************************************************************************)
\* the assignments of a SET list: its tokens split at the commas
RECURSIVE SplitAssignments(_)
SplitAssignments(toks) ==
    IF Len(toks) = 0 THEN <<>>
    ELSE IF Len(toks) <= 3 THEN <<toks>>
    ELSE <<SubSeq(toks, 1, 3)>> \o SplitAssignments(SubSeq(toks, 5, Len(toks)))

\* the column an assignment names and the number of its placeholder
AssignedColumn(a) ==
    IF \E c \in SqlColumns : QuoteIdent(c) = a[1]
    THEN CHOOSE c \in SqlColumns : QuoteIdent(c) = a[1]
    ELSE ""
PlaceholderNumber(tok) ==
    IF \E n \in 1..(MaxFields + 2) : Placeholder(n) = tok
    THEN CHOOSE n \in 1..(MaxFields + 2) : Placeholder(n) = tok
    ELSE 0

(***************************************************************************)
(* middleware/auth.js                                                      *)
(***************************************************************************)
\* the signing secret of config.js, and the one of the test's badJwt
SECRET_KEY == "secret-dev"
WrongSecret == "wrong"

Usernames == {"test", "test2", "adminuser"}

\* jwt.sign(payload, secret): the payload with iat added, signed with secret
JwtSign(payload, secret, now) ==
    [wellFormed |-> TRUE,
     secret |-> secret,
     claims |-> [username |-> payload.username,
                 isAdmin |-> payload.isAdmin,
                 iat |-> now]]

\* a string that is not a token at all
MalformedToken ==
    [wellFormed |-> FALSE,
     secret |-> "",
     claims |-> [username |-> "", isAdmin |-> FALSE, iat |-> 0]]

\* jwt.verify that hands back the claims without iat
JwtVerify_NoIat(token, key) ==
    IF token.wellFormed /\ token.secret = key
    THEN [threw |-> FALSE,
          claims |-> [username |-> token.claims.username,
                      isAdmin |-> token.claims.isAdmin]]
    ELSE [threw |-> TRUE, claims |-> token.claims]

\* jwt.verify(token, key): the claims, or an exception
JwtVerify(token, key) ==
    IF token.wellFormed /\ token.secret = key
    THEN [threw |-> FALSE, claims |-> token.claims]
    ELSE [threw |-> TRUE, claims |-> token.claims]

\* res.locals of a fresh response, and res.locals holding a user
EmptyLocals == <<>>
LocalsWith(user) == [k \in {"user"} |-> user]
HasUser(locals) == "user" \in DOMAIN locals

\* what a middleware function did: res.locals afterwards, how often it called
\* next, and the error it passed to next
MwResult(locals, err) == [locals |-> locals, nextCalls |-> 1, err |-> err]

\* authenticateJWT without the catch: a failed verification reaches next
authenticateJWT_NoCatch(req, locals) ==
    IF req.hasAuthHeader
    THEN LET verified == JwtVerify(req.token, SECRET_KEY)
         IN  IF verified.threw
             THEN MwResult(locals, "JsonWebTokenError")
             ELSE MwResult(LocalsWith(verified.claims), "none")
    ELSE MwResult(locals, "none")

\* authenticateJWT(req, res, next)
authenticateJWT(req, locals) ==
    IF req.hasAuthHeader
    THEN LET verified == JwtVerify(req.token, SECRET_KEY)
         IN  IF verified.threw
             THEN MwResult(locals, "none")
             ELSE MwResult(LocalsWith(verified.claims), "none")
    ELSE MwResult(locals, "none")

\* ensureLoggedIn that lets everyone through
ensureLoggedIn_NoCheck(req, locals) == MwResult(locals, "none")

\* ensureLoggedIn(req, res, next)
ensureLoggedIn(req, locals) ==
    IF ~HasUser(locals)
    THEN MwResult(locals, "UnauthorizedError")
    ELSE MwResult(locals, "none")

\* ensureIsAdmin reading res.locals.user.isAdmin without a user check: the
\* read of a property of undefined is a TypeError
ensureIsAdmin_NoUserCheck(req, locals) ==
    IF ~HasUser(locals)
    THEN MwResult(locals, "TypeError")
    ELSE IF locals.user.isAdmin
         THEN MwResult(locals, "none")
         ELSE MwResult(locals, "UnauthorizedError")

\* ensureIsAdmin(req, res, next)
ensureIsAdmin(req, locals) ==
    IF HasUser(locals) /\ locals.user.isAdmin
    THEN MwResult(locals, "none")
    ELSE MwResult(locals, "UnauthorizedError")

\* ensureIsAdminOrSelf that forgets the admin alternative
ensureIsAdminOrSelf_SelfOnly(req, locals) ==
    IF HasUser(locals) /\ locals.user.username = req.params.username
    THEN MwResult(locals, "none")
    ELSE MwResult(locals, "UnauthorizedError")

\* ensureIsAdminOrSelf(req, res, next)
ensureIsAdminOrSelf(req, locals) ==
    IF HasUser(locals)
       /\ (locals.user.isAdmin \/ locals.user.username = req.params.username)
    THEN MwResult(locals, "none")
    ELSE MwResult(locals, "UnauthorizedError")

(***************************************************************************)
(* Calls of the middleware functions on every small (req, res)             *)
(***************************************************************************)
\* the tokens a request can carry
Tokens ==
    {MalformedToken} \cup
    { JwtSign([username |-> u, isAdmin |-> a], k, 1) :
        u \in Usernames, a \in BOOLEAN, k \in {SECRET_KEY, WrongSecret} }

\* requests: with or without an authorization header, and a route parameter
MwRequests ==
    { [hasAuthHeader |-> h, token |-> t, params |-> [username |-> p]] :
        h \in BOOLEAN, t \in Tokens, p \in Usernames }

\* the users the tests put into res.locals, and the ones a token decodes to
LocalsUsers ==
    { [username |-> u, isAdmin |-> a] : u \in Usernames, a \in BOOLEAN } \cup
    { [username |-> u, isAdmin |-> a, iat |-> 1] : u \in Usernames, a \in BOOLEAN }

MwLocals == {EmptyLocals} \cup { LocalsWith(u) : u \in LocalsUsers }

MwUnused == mwIn = None /\ mwOut = None

SqlUnused == sqlIn = None /\ sqlOut = None

AppUnused ==
    /\ companies = {} /\ jobs = {} /\ nextId = 1
    /\ request = None /\ resLocals = EmptyLocals /\ pc = "off" /\ stage = 0
    /\ resp = None /\ log = <<>>
    /\ call = None /\ ret = None /\ stmts = 0 /\ jobs0 = {}

MwInit ==
    /\ \E r \in MwRequests, l \in MwLocals :
          /\ ~r.hasAuthHeader => r.token = MalformedToken
          /\ mwIn = [req |-> r, locals |-> l]
    /\ mwOut = None
    /\ SqlUnused
    /\ AppUnused

\* express hands authenticateJWT a response whose locals are still empty
CallAuthenticateJWT ==
    /\ mwIn # None /\ mwOut = None
    /\ mwIn.locals = EmptyLocals
    /\ mwOut' = [mw |-> "authenticateJWT",
                 result |-> authenticateJWT(mwIn.req, mwIn.locals)]
    /\ UNCHANGED <<mwIn, sqlVars, appVars>>

CallEnsureLoggedIn ==
    /\ mwIn # None /\ mwOut = None
    /\ mwOut' = [mw |-> "ensureLoggedIn",
                 result |-> ensureLoggedIn(mwIn.req, mwIn.locals)]
    /\ UNCHANGED <<mwIn, sqlVars, appVars>>

CallEnsureIsAdmin ==
    /\ mwIn # None /\ mwOut = None
    /\ mwOut' = [mw |-> "ensureIsAdmin",
                 result |-> ensureIsAdmin(mwIn.req, mwIn.locals)]
    /\ UNCHANGED <<mwIn, sqlVars, appVars>>

CallEnsureIsAdminOrSelf ==
    /\ mwIn # None /\ mwOut = None
    /\ mwOut' = [mw |-> "ensureIsAdminOrSelf",
                 result |-> ensureIsAdminOrSelf(mwIn.req, mwIn.locals)]
    /\ UNCHANGED <<mwIn, sqlVars, appVars>>

MwNext ==
    \/ CallAuthenticateJWT
    \/ CallEnsureLoggedIn
    \/ CallEnsureIsAdmin
    \/ CallEnsureIsAdminOrSelf

SpecMw == MwInit /\ [][MwNext]_vars

(***************************************************************************)
(* Properties of the middleware functions                                  *)
(***************************************************************************)
MwDid(name) == mwOut # None /\ mwOut.mw = name

\* the request's credential is present and verifies against SECRET_KEY
CredentialVerifies(req) ==
    req.hasAuthHeader /\ req.token.wellFormed /\ req.token.secret = SECRET_KEY

MwPassed == mwOut.result.nextCalls = 1 /\ mwOut.result.err = "none"
MwDenied == mwOut.result.nextCalls = 1 /\ mwOut.result.err = "UnauthorizedError"

\* C3: authenticateJWT never fails: whatever the request carries (no header,
\* a malformed token, a token signed with another secret, a valid token) it
\* calls next exactly once without an error, and when the credential is
\* absent or does not verify res.locals stays empty.
C3_AuthenticateNeverFails ==
    MwDid("authenticateJWT") =>
        /\ MwPassed
        /\ ~CredentialVerifies(mwIn.req) => mwOut.result.locals = EmptyLocals

\* authenticateJWT has run on a well-formed token signed with another secret
C3_Witness ==
    /\ MwDid("authenticateJWT")
    /\ mwIn.req.hasAuthHeader
    /\ mwIn.req.token.wellFormed
    /\ mwIn.req.token.secret = WrongSecret

\* C4: given a credential validly signed with the shared secret that carries
\* username and isAdmin, authenticateJWT leaves res.locals holding exactly
\* user, and user holding exactly username, isAdmin and iat, with the
\* credential's username and isAdmin.
C4_ValidTokenSetsUser ==
    (MwDid("authenticateJWT") /\ CredentialVerifies(mwIn.req)) =>
        /\ DOMAIN mwOut.result.locals = {"user"}
        /\ DOMAIN mwOut.result.locals.user = {"username", "isAdmin", "iat"}
        /\ mwOut.result.locals.user.username = mwIn.req.token.claims.username
        /\ mwOut.result.locals.user.isAdmin = mwIn.req.token.claims.isAdmin

\* authenticateJWT has run on a valid token of the non-admin test user
C4_Witness ==
    /\ MwDid("authenticateJWT")
    /\ CredentialVerifies(mwIn.req)
    /\ mwIn.req.token.claims.username = "test"
    /\ ~mwIn.req.token.claims.isAdmin

\* C5: ensureLoggedIn calls next without an error exactly when res.locals
\* holds a user, and with UnauthorizedError otherwise.
C5_LoggedInIffUser ==
    MwDid("ensureLoggedIn") =>
        /\ HasUser(mwIn.locals) => MwPassed
        /\ ~HasUser(mwIn.locals) => MwDenied

\* ensureLoggedIn has denied a request without a user
C5_Witness == MwDid("ensureLoggedIn") /\ ~HasUser(mwIn.locals) /\ MwDenied

\* C6: ensureIsAdmin calls next without an error exactly when res.locals
\* holds a user whose isAdmin is true; for a non-admin user and for empty
\* locals alike it calls next with UnauthorizedError.
C6_AdminOnly ==
    MwDid("ensureIsAdmin") =>
        LET admin == HasUser(mwIn.locals) /\ mwIn.locals.user.isAdmin
        IN  /\ admin => MwPassed
            /\ ~admin => MwDenied

\* ensureIsAdmin has run on empty locals
C6_Witness == MwDid("ensureIsAdmin") /\ mwIn.locals = EmptyLocals

\* C7: ensureIsAdminOrSelf calls next without an error exactly when
\* res.locals holds a user who is an admin or whose username is
\* req.params.username; otherwise, empty locals included, it calls next with
\* UnauthorizedError.
C7_AdminOrSelf ==
    MwDid("ensureIsAdminOrSelf") =>
        LET allowed ==
              /\ HasUser(mwIn.locals)
              /\ \/ mwIn.locals.user.isAdmin
                 \/ mwIn.locals.user.username = mwIn.req.params.username
        IN  /\ allowed => MwPassed
            /\ ~allowed => MwDenied

\* ensureIsAdminOrSelf has let an admin act on another user's route
C7_Witness ==
    /\ MwDid("ensureIsAdminOrSelf")
    /\ HasUser(mwIn.locals)
    /\ mwIn.locals.user.isAdmin
    /\ mwIn.locals.user.username # mwIn.req.params.username
    /\ MwPassed

(***************************************************************************)
(* Calls of sqlForPartialUpdate on every small input                       *)
(***************************************************************************)
Injective(f) == \A i, j \in DOMAIN f : f[i] = f[j] => i = j

\* the key lists of the objects with at most MaxFields entries
KeyLists ==
    { s \in UNION { [1..n -> SqlKeys] : n \in 0..MaxFields } : Injective(s) }

DataObjects ==
    UNION { { [i \in 1..Len(ks) |-> [key |-> ks[i], val |-> SqlValue(ks[i], pick[i])]] :
                pick \in [1..Len(ks) -> 1..2] } : ks \in KeyLists }

SqlInit ==
    /\ \E d \in DataObjects, m \in JsToSqlMaps :
          sqlIn = [dataToUpdate |-> d, jsToSql |-> m]
    /\ sqlOut = None
    /\ MwUnused
    /\ AppUnused

SqlCall ==
    /\ sqlIn # None
    /\ sqlOut = None
    /\ sqlOut' = sqlForPartialUpdate(sqlIn.dataToUpdate, sqlIn.jsToSql)
    /\ UNCHANGED <<sqlIn, mwVars, appVars>>

SqlNext == SqlCall

SpecSql == SqlInit /\ [][SqlNext]_vars

(***************************************************************************)
(* Properties of sqlForPartialUpdate                                       *)
(***************************************************************************)
SqlReturned == sqlOut # None /\ sqlOut.threw = "none"

\* C1: for a non-empty dataToUpdate the SET list has exactly one assignment
\* per key, the i-th assignment (in key order) is for the i-th key and uses
\* placeholder $i, and values[i] is the value supplied for that key, so the
\* placeholder numbers are 1..n without gaps or repeats.
C1_PlaceholdersAligned ==
    (sqlOut # None /\ Len(sqlIn.dataToUpdate) > 0) =>
        LET d == sqlIn.dataToUpdate
            assignments == SplitAssignments(sqlOut.setCols)
        IN  /\ sqlOut.threw = "none"
            /\ Len(assignments) = Len(d)
            /\ Len(sqlOut.values) = Len(d)
            /\ \A i \in 1..Len(d) :
                  /\ Len(assignments[i]) = 3
                  /\ assignments[i][2] = "="
                  /\ AssignedColumn(assignments[i]) \in
                        {d[i].key} \cup
                        {sqlIn.jsToSql[k] : k \in DOMAIN sqlIn.jsToSql \cap {d[i].key}}
                  /\ PlaceholderNumber(assignments[i][3]) = i
                  /\ sqlOut.values[i] = d[i].val
            /\ {PlaceholderNumber(assignments[i][3]) : i \in 1..Len(assignments)}
                  = 1..Len(d)

\* a call with at least two fields has returned
C1_Witness == SqlReturned /\ Len(sqlIn.dataToUpdate) >= 2

Undefined == -2000

Has(o, k) == \E i \in 1..Len(o) : o[i].key = k
Get(o, k) ==
    IF Has(o, k) THEN o[CHOOSE i \in 1..Len(o) : o[i].key = k].val ELSE Undefined

\* a number that counts as a condition whenever it is there, 0 included
Truthy_ZeroIncluded(v) == v # Null /\ v # Undefined

\* a number read as a condition: 0, null and undefined are falsy
Truthy(v) == v # 0 /\ v # Null /\ v # Undefined

\* a < b and a > b on numbers: null counts as 0, undefined compares false
JsNumber(v) == IF v = Null THEN 0 ELSE v

\* a < that is never true
JsLt_Never(a, b) == FALSE

JsLt(a, b) == a # Undefined /\ b # Undefined /\ JsNumber(a) < JsNumber(b)

\* a > that is never true
JsGt_Never(a, b) == FALSE

JsGt(a, b) == JsLt(b, a)

(***************************************************************************)
(* The database: tables companies and jobs                                 *)
(***************************************************************************)
JobColumns == {"id", "title", "salary", "equity", "company_handle"}

\* SELECT handle, name, num_employees AS "numEmployees", ... : a row as the
\* select list names its columns
CompanyColumns(c) ==
    [handle |-> c.handle, name |-> c.name, numEmployees |-> c.num_employees]

\* SELECT ... FROM companies WHERE handle = $1
SelectCompany(table, handle) ==
    { CompanyColumns(c) : c \in { x \in table : x.handle = handle } }

\* INSERT INTO jobs (title, salary, equity, company_handle) VALUES ($1..$4)
\* RETURNING id, title, salary, equity
InsertedJob(id, params) ==
    [id |-> id, title |-> params[1], salary |-> params[2], equity |-> params[3],
     company_handle |-> params[4]]

\* one row after the assignments of a SET list, read with the parameters
RECURSIVE ApplyAssignments(_, _, _)
ApplyAssignments(row, assignments, params) ==
    IF Len(assignments) = 0 THEN row
    ELSE ApplyAssignments(
            [row EXCEPT ![AssignedColumn(assignments[1])] =
                            params[PlaceholderNumber(assignments[1][3])]],
            Tail(assignments), params)

\* idVarIdx and handleVarIdx: "$" + (values.length + 1)
VarIdx(values) == Placeholder(Len(values) + 1)

\* the values without the key of the row
QueryValues_NoKey(values, key) == values

\* [...values, id] and [...values, handle]
QueryValues(values, key) == values \o <<key>>

\* the statement text is well formed and names only columns of jobs and
\* parameters that were supplied
UpdateAccepted(setCols, idVarIdx, params) ==
    LET assignments == SplitAssignments(setCols)
    IN  /\ Len(assignments) > 0
        /\ \A i \in 1..Len(assignments) :
              /\ Len(assignments[i]) = 3
              /\ assignments[i][2] = "="
              /\ AssignedColumn(assignments[i]) \in JobColumns
              /\ PlaceholderNumber(assignments[i][3]) \in 1..Len(params)
        /\ PlaceholderNumber(idVarIdx) \in 1..Len(params)

\* the UPDATE without its WHERE: every row takes the assignments
UpdatedJobs_NoWhere(table, setCols, idVarIdx, params) ==
    { ApplyAssignments(j, SplitAssignments(setCols), params) : j \in table }

\* UPDATE jobs SET ${setCols} WHERE id = ${idVarIdx} RETURNING ...
\* the rows of jobs afterwards
UpdatedJobs(table, setCols, idVarIdx, params) ==
    { IF j.id = params[PlaceholderNumber(idVarIdx)]
      THEN ApplyAssignments(j, SplitAssignments(setCols), params)
      ELSE j : j \in table }

\* the rows the UPDATE returns: the rows it changed, as they are afterwards
UpdateReturning(table, setCols, idVarIdx, params) ==
    { ApplyAssignments(j, SplitAssignments(setCols), params) :
        j \in { r \in table : r.id = params[PlaceholderNumber(idVarIdx)] } }

CompanyTableColumns == {"handle", "name", "description", "num_employees", "logo_url"}

\* the same for UPDATE companies
CompanyUpdateAccepted(setCols, handleVarIdx, params) ==
    LET assignments == SplitAssignments(setCols)
    IN  /\ Len(assignments) > 0
        /\ \A i \in 1..Len(assignments) :
              /\ Len(assignments[i]) = 3
              /\ assignments[i][2] = "="
              /\ AssignedColumn(assignments[i]) \in CompanyTableColumns
              /\ PlaceholderNumber(assignments[i][3]) \in 1..Len(params)
        /\ PlaceholderNumber(handleVarIdx) \in 1..Len(params)

\* UPDATE companies SET ${setCols} WHERE handle = ${handleVarIdx} RETURNING ...
\* the rows of companies afterwards
UpdatedCompanies(table, setCols, handleVarIdx, params) ==
    { IF c.handle = params[PlaceholderNumber(handleVarIdx)]
      THEN ApplyAssignments(c, SplitAssignments(setCols), params)
      ELSE c : c \in table }

\* the rows that UPDATE returns, as its RETURNING list names their columns
CompanyUpdateReturning(table, setCols, handleVarIdx, params) ==
    { LET u == ApplyAssignments(c, SplitAssignments(setCols), params)
      IN  [handle |-> u.handle, name |-> u.name, description |-> u.description,
           numEmployees |-> u.num_employees, logoUrl |-> u.logo_url] :
        c \in { r \in table : r.handle = params[PlaceholderNumber(handleVarIdx)] } }

\* a DELETE that removes no row
DeletedFrom_Nothing(table, id) == table

\* DELETE FROM jobs WHERE id = $1 RETURNING id
DeletedFrom(table, id) == { j \in table : j.id # id }

\* SELECT ... FROM jobs j INNER JOIN companies c ON c.handle = j.company_handle
\* WHERE j.id = $1
SelectJobWithCompany(jobTable, companyTable, id) ==
    UNION { { [job |-> j, company |-> CompanyColumns(c)] :
                c \in { x \in companyTable : x.handle = j.company_handle } } :
            j \in { r \in jobTable : r.id = id } }

(***************************************************************************)
(* models/job.js                                                           *)
(***************************************************************************)
\* result.rows[0]: the first row, undefined (None) when there is none
FirstRow(rows) == IF rows = {} THEN None ELSE CHOOSE r \in rows : TRUE

\* a lookup that never reports a missing company
CompanyNotFound_Never(company) == FALSE

\* !company
CompanyNotFound(company) == company = None

Threw(err) == [threw |-> err, value |-> None]
Returned(v) == [threw |-> "none", value |-> v]

\* a model operation ends: its result is there for the caller
Finished(result) ==
    /\ ret' = result
    /\ pc' = "returned"

InModel(op, step) == pc = "model" /\ call.op = op /\ call.step = step

\* Job.create up to the second await: the company lookup
JobCreateSelect ==
    /\ InModel("create", "select")
    /\ stmts' = stmts + 1
    /\ LET getCompanyResult == SelectCompany(companies, call.args.companyHandle)
           company == FirstRow(getCompanyResult)
       IN  IF CompanyNotFound(company)
           THEN /\ Finished(Threw("BadRequestError"))
                /\ UNCHANGED call
           ELSE /\ call' = [call EXCEPT !.step = "insert", !.company = company]
                /\ UNCHANGED <<ret, pc>>
    /\ UNCHANGED <<dbVars, request, resLocals, stage, resp, log, jobs0, sqlVars, mwVars>>

\* Job.create from the second query on: the insert and the return
JobCreateInsert ==
    /\ InModel("create", "insert")
    /\ stmts' = stmts + 1
    /\ LET job == InsertedJob(nextId, <<call.args.title, call.args.salary,
                                        call.args.equity, call.args.companyHandle>>)
       IN  /\ jobs' = jobs \cup {job}
           /\ nextId' = nextId + 1
           /\ Finished(Returned([id |-> job.id, title |-> job.title,
                                 salary |-> job.salary, equity |-> job.equity,
                                 company |-> call.company]))
    /\ UNCHANGED <<companies, call, request, resLocals, stage, resp, log, jobs0,
                   sqlVars, mwVars>>

\* Job.get
JobGet ==
    /\ InModel("get", "select")
    /\ stmts' = stmts + 1
    /\ LET result == SelectJobWithCompany(jobs, companies, call.args.id)
           r == FirstRow(result)
       IN  IF r = None
           THEN Finished(Threw("NotFoundError"))
           ELSE Finished(Returned([id |-> r.job.id, title |-> r.job.title,
                                       salary |-> r.job.salary,
                                       equity |-> r.job.equity,
                                       company |-> r.company]))
    /\ UNCHANGED <<dbVars, call, request, resLocals, stage, resp, log, jobs0,
                   sqlVars, mwVars>>

\* Job.update
JobUpdate ==
    /\ InModel("update", "begin")
    /\ LET built == sqlForPartialUpdate(call.args.data, JobJsToSql)
           idVarIdx == VarIdx(built.values)
           params == QueryValues(built.values, call.args.id)
       IN  IF built.threw # "none"
           THEN /\ Finished(Threw(built.threw))
                /\ UNCHANGED <<jobs, stmts>>
           ELSE /\ stmts' = stmts + 1
                /\ IF ~UpdateAccepted(built.setCols, idVarIdx, params)
                   THEN /\ Finished(Threw("DatabaseError"))
                        /\ UNCHANGED jobs
                   ELSE LET rows == UpdateReturning(jobs, built.setCols, idVarIdx, params)
                            job == FirstRow(rows)
                        IN  /\ jobs' = UpdatedJobs(jobs, built.setCols, idVarIdx, params)
                            /\ IF job = None
                               THEN Finished(Threw("NotFoundError"))
                               ELSE Finished(Returned(
                                          [id |-> job.id, title |-> job.title,
                                           salary |-> job.salary,
                                           equity |-> job.equity,
                                           companyHandle |-> job.company_handle]))
    /\ UNCHANGED <<companies, nextId, call, request, resLocals, stage, resp, log,
                   jobs0, sqlVars, mwVars>>

\* Job.delete
JobDelete ==
    /\ InModel("delete", "begin")
    /\ stmts' = stmts + 1
    /\ jobs' = DeletedFrom(jobs, call.args.id)
    /\ IF \E j \in jobs : j.id = call.args.id
       THEN Finished(Returned(None))
       ELSE Finished(Threw("NotFoundError"))
    /\ UNCHANGED <<companies, nextId, call, request, resLocals, stage, resp, log,
                   jobs0, sqlVars, mwVars>>

\* User.applyForJob: the users model is outside this model; it ends with a
\* result or with one of its errors and leaves jobs and companies alone
UserApplyForJob ==
    /\ InModel("applyForJob", "begin")
    /\ stmts' = stmts + 1
    /\ \E err \in {"none", "BadRequestError", "NotFoundError"} :
          IF err = "none" THEN Finished(Returned(None)) ELSE Finished(Threw(err))
    /\ UNCHANGED <<dbVars, call, request, resLocals, stage, resp, log, jobs0,
                   sqlVars, mwVars>>

(***************************************************************************)
(* The requests and the direct model calls that are tried                  *)
(***************************************************************************)
MaxId == 2              \* the largest job id the sequence hands out

Ids == (1..MaxId) \cup {-1}

JobDataKeys == {"title", "salary", "equity"}

\* the objects whose key list is in keyLists, values picked from vals[key]
Objects(keyLists, vals) ==
    UNION { { [i \in 1..Len(ks) |-> [key |-> ks[i], val |-> vals[ks[i]][pick[i]]]] :
                pick \in { f \in [1..Len(ks) -> 1..3] :
                             \A i \in 1..Len(ks) : f[i] <= Len(vals[ks[i]]) } } :
            ks \in keyLists }

\* POST /jobs bodies: complete ones, and ones without equity
PostValues ==
    [k \in {"title", "salary", "equity", "companyHandle"} |->
        CASE k = "title"  -> <<"Dev">>
          [] k = "salary" -> <<100, -1>>
          [] k = "equity" -> <<50, 200, -10>>
          [] OTHER        -> <<"c1", "c9">>]

PostBodies ==
    Objects({<<"title", "salary", "equity", "companyHandle">>,
             <<"title", "salary", "companyHandle">>}, PostValues)

\* PATCH /jobs/:id bodies: any of the job's fields, or an id
PatchValues ==
    [k \in JobDataKeys \cup {"id"} |->
        CASE k = "title"  -> <<"New">>
          [] k = "salary" -> <<0, -1>>
          [] k = "equity" -> <<0, 200>>
          [] OTHER        -> <<2>>]

PatchKeyLists ==
    { <<>>, <<"title">>, <<"salary">>, <<"equity">>,
      <<"title", "salary">>, <<"title", "equity">>, <<"salary", "equity">>,
      <<"equity", "title">>, <<"title", "salary", "equity">> }

\* the values out of range are tried alone and with each other, not next to
\* a title
PatchBodies ==
    { b \in Objects(PatchKeyLists \cup {<<"id">>}, PatchValues) :
        (\E i \in 1..Len(b) : b[i].key = "title") =>
            \A i \in 1..Len(b) : b[i].key = "title" \/ b[i].val = 0 }
    \cup {<<[key |-> "equity", val |-> -10]>>}

\* the data of direct calls of Job.update, as in the model's tests
DirectValues ==
    [k \in JobDataKeys |->
        CASE k = "title"  -> <<"New">>
          [] k = "salary" -> <<0>>
          [] OTHER        -> <<Null>>]

DirectUpdateData == Objects(PatchKeyLists, DirectValues)

\* the authorization headers: none, a user's, an admin's
Credentials ==
    {[hasAuthHeader |-> FALSE, token |-> MalformedToken]} \cup
    { [hasAuthHeader |-> TRUE, token |-> t] :
        t \in { JwtSign([username |-> "test", isAdmin |-> FALSE], SECRET_KEY, 1),
                JwtSign([username |-> "adminuser", isAdmin |-> TRUE], SECRET_KEY, 1) } }

Request(route, cred, username, id, body) ==
    [route |-> route, hasAuthHeader |-> cred.hasAuthHeader, token |-> cred.token,
     params |-> [username |-> username, id |-> id], body |-> body]

\* the bodies tried with a caller: every body with an admin's token, the
\* plain ones with the others, whose requests end ahead of the handler
BodiesFor(c, bodies, plain) ==
    IF c.hasAuthHeader /\ c.token.claims.isAdmin THEN bodies ELSE plain

PlainPostBodies ==
    { b \in PostBodies : Get(b, "salary") = 100 /\ Get(b, "companyHandle") = "c1" }

PlainPatchBodies == { b \in PatchBodies : Len(b) = 1 }

Requests ==
    UNION { { Request("POST /jobs", c, "", 0, b) :
                b \in BodiesFor(c, PostBodies, PlainPostBodies) } : c \in Credentials }
    \cup { Request("GET /jobs", c, "", 0, b) :
             c \in Credentials,
             b \in { <<>>, <<[key |-> "minSalary", val |-> -1]>>,
                      <<[key |-> "minSalary", val |-> 100]>> } }
    \cup { Request("GET /jobs/:id", c, "", i, <<>>) : c \in Credentials, i \in Ids }
    \cup UNION { { Request("PATCH /jobs/:id", c, "", i, b) :
                     i \in Ids, b \in BodiesFor(c, PatchBodies, PlainPatchBodies) } :
                   c \in Credentials }
    \cup { Request("DELETE /jobs/:id", c, "", i, <<>>) : c \in Credentials, i \in Ids }
    \cup { Request("POST /users/:username/jobs/:id", c, u, 1, <<>>) :
             c \in Credentials, u \in {"test", "test2"} }

DirectCalls ==
    { [op |-> "create",
       args |-> [title |-> "Dev", salary |-> 100, equity |-> 50, companyHandle |-> h]] :
        h \in {"c1", "c9"} }
    \cup { [op |-> "update", args |-> [id |-> i, data |-> d]] :
             i \in Ids, d \in DirectUpdateData }
    \cup { [op |-> o, args |-> [id |-> i]] : o \in {"get", "delete"}, i \in Ids }

(***************************************************************************)
(* app.js and routes/jobs.js: a request's way through the application      *)
(***************************************************************************)
\* the job routes registering ensureLoggedIn alone
RouteChain_LoginOnly(route) ==
    CASE route \in {"GET /jobs", "GET /jobs/:id"} -> <<>>
      [] route = "POST /users/:username/jobs/:id" ->
            <<"ensureLoggedIn", "ensureIsAdminOrSelf">>
      [] OTHER -> <<"ensureLoggedIn">>

\* the routes registering the admin check ahead of the login check
RouteChain_AdminFirst(route) ==
    CASE route \in {"GET /jobs", "GET /jobs/:id"} -> <<>>
      [] route = "POST /users/:username/jobs/:id" ->
            <<"ensureIsAdminOrSelf", "ensureLoggedIn">>
      [] OTHER -> <<"ensureIsAdmin", "ensureLoggedIn">>

\* the middleware each route registers before its handler
RouteChain(route) ==
    CASE route = "POST /jobs"       -> <<"ensureLoggedIn", "ensureIsAdmin">>
      [] route = "GET /jobs"        -> <<>>
      [] route = "GET /jobs/:id"    -> <<>>
      [] route = "PATCH /jobs/:id"  -> <<"ensureLoggedIn", "ensureIsAdmin">>
      [] route = "DELETE /jobs/:id" -> <<"ensureLoggedIn", "ensureIsAdmin">>
      [] OTHER                      -> <<"ensureLoggedIn", "ensureIsAdminOrSelf">>

RunCheck(name, rq, lc) ==
    CASE name = "ensureLoggedIn" -> ensureLoggedIn(rq, lc)
      [] name = "ensureIsAdmin"  -> ensureIsAdmin(rq, lc)
      [] OTHER                   -> ensureIsAdminOrSelf(rq, lc)

\* the error handler's status for an error
StatusOf(err) ==
    CASE err = "BadRequestError"   -> 400
      [] err = "UnauthorizedError" -> 401
      [] err = "NotFoundError"     -> 404
      [] OTHER                     -> 500

\* next(err): the error handler answers and the request is over
RespondError(err) ==
    /\ resp' = [status |-> StatusOf(err), error |-> err]
    /\ pc' = "done"

\* where express goes after stage i - 1 of the route has called next()
AfterStage(route, i) ==
    IF i <= Len(RouteChain(route)) THEN "middleware" ELSE "handler"

Logged(name, err) == log' = Append(log, [stage |-> name, err |-> err])

Arrive ==
    /\ pc = "idle"
    /\ \E r \in Requests :
          /\ r.route = "POST /jobs" => nextId <= MaxId
          /\ request' = r
    /\ resLocals' = EmptyLocals
    /\ pc' = "authenticateJWT"
    /\ stage' = 0
    /\ resp' = None /\ log' = <<>>
    /\ call' = None /\ ret' = None /\ stmts' = 0 /\ jobs0' = jobs
    /\ UNCHANGED <<dbVars, sqlVars, mwVars>>

\* app.use(authenticateJWT)
Authenticate ==
    /\ pc = "authenticateJWT"
    /\ LET result == authenticateJWT(request, resLocals)
       IN  /\ resLocals' = result.locals
           /\ Logged("authenticateJWT", result.err)
           /\ IF result.err # "none"
              THEN RespondError(result.err) /\ UNCHANGED stage
              ELSE /\ stage' = 1
                   /\ pc' = AfterStage(request.route, 1)
                   /\ UNCHANGED resp
    /\ UNCHANGED <<dbVars, request, callVars, sqlVars, mwVars>>

\* the route's next authorization check
Check ==
    /\ pc = "middleware"
    /\ LET name == RouteChain(request.route)[stage]
           result == RunCheck(name, request, resLocals)
       IN  /\ resLocals' = result.locals
           /\ Logged(name, result.err)
           /\ IF result.err # "none"
              THEN RespondError(result.err) /\ UNCHANGED stage
              ELSE /\ stage' = stage + 1
                   /\ pc' = AfterStage(request.route, stage + 1)
                   /\ UNCHANGED resp
    /\ UNCHANGED <<dbVars, request, callVars, sqlVars, mwVars>>

\* jsonschema.validate(req.body, jobNewSchema).valid
ValidJobNew(body) ==
    /\ \A k \in {"title", "salary", "equity", "companyHandle"} : Has(body, k)
    /\ \A i \in 1..Len(body) :
          /\ body[i].key \in {"title", "salary", "equity", "companyHandle"}
          /\ body[i].key \in {"salary", "equity"} =>
                body[i].val # Null /\ body[i].val # Undefined

\* jsonschema.validate(req.body, jobUpdateSchema).valid
ValidJobUpdate(body) ==
    \A i \in 1..Len(body) :
        /\ body[i].key \in JobDataKeys
        /\ body[i].key \in {"salary", "equity"} =>
              body[i].val # Null /\ body[i].val # Undefined

\* an equity of 1, in hundredths
EquityOne == 100

\* the handler throws inside its try: catch (err) { return next(err) }
HandlerFails(err) ==
    /\ Logged("handler", err)
    /\ RespondError(err)
    /\ UNCHANGED <<call, ret, stmts>>

\* the handler calls a model operation and awaits it
HandlerCalls(op, args) ==
    /\ log' = log \o <<[stage |-> "handler", err |-> "none"],
                       [stage |-> op, err |-> "none"]>>
    /\ call' = [op |-> op, args |-> args,
                step |-> IF op \in {"create", "get"} THEN "select" ELSE "begin",
                company |-> None]
    /\ pc' = "model"
    /\ UNCHANGED <<resp, ret, stmts>>

AtHandler(route) == pc = "handler" /\ request.route = route

\* router.post("/", ...) up to the await of Job.create
HandlePostJobs ==
    /\ AtHandler("POST /jobs")
    /\ LET body == request.body
           salary == Get(body, "salary")
           equity == Get(body, "equity")
       IN  IF ~ValidJobNew(body) THEN HandlerFails("BadRequestError")
           ELSE IF JsLt(salary, 0) THEN HandlerFails("BadRequestError")
           ELSE IF JsLt(equity, 0) \/ JsGt(equity, EquityOne)
                THEN HandlerFails("BadRequestError")
           ELSE HandlerCalls("create",
                    [title |-> Get(body, "title"), salary |-> salary,
                     equity |-> equity,
                     companyHandle |-> Get(body, "companyHandle")])
    /\ UNCHANGED <<dbVars, request, resLocals, stage, jobs0, sqlVars, mwVars>>

\* router.get("/:id", ...) up to the await of Job.get
HandleGetJob ==
    /\ AtHandler("GET /jobs/:id")
    /\ HandlerCalls("get", [id |-> request.params.id])
    /\ UNCHANGED <<dbVars, request, resLocals, stage, jobs0, sqlVars, mwVars>>

\* router.patch("/:id", ...) up to the await of Job.update
HandlePatchJob ==
    /\ AtHandler("PATCH /jobs/:id")
    /\ LET body == request.body
           salary == Get(body, "salary")
           equity == Get(body, "equity")
       IN  IF ~ValidJobUpdate(body) THEN HandlerFails("BadRequestError")
           ELSE IF Truthy(salary) /\ JsLt(salary, 0)
                THEN HandlerFails("BadRequestError")
           ELSE IF Truthy(equity) /\ (JsLt(equity, 0) \/ JsGt(equity, EquityOne))
                THEN HandlerFails("BadRequestError")
           ELSE HandlerCalls("update", [id |-> request.params.id, data |-> body])
    /\ UNCHANGED <<dbVars, request, resLocals, stage, jobs0, sqlVars, mwVars>>

\* router.delete("/:id", ...) up to the await of Job.delete
HandleDeleteJob ==
    /\ AtHandler("DELETE /jobs/:id")
    /\ HandlerCalls("delete", [id |-> request.params.id])
    /\ UNCHANGED <<dbVars, request, resLocals, stage, jobs0, sqlVars, mwVars>>

\* router.post("/:username/jobs/:id", ...) up to the await of User.applyForJob
HandleApplyForJob ==
    /\ AtHandler("POST /users/:username/jobs/:id")
    /\ HandlerCalls("applyForJob",
          [username |-> request.params.username, id |-> request.params.id])
    /\ UNCHANGED <<dbVars, request, resLocals, stage, jobs0, sqlVars, mwVars>>

\* the handler after its await: res.status(...).json(...) or next(err)
SuccessStatus(route) == IF route = "POST /jobs" THEN 201 ELSE 200

Reply ==
    /\ pc = "returned"
    /\ request # None
    /\ IF ret.threw # "none"
       THEN RespondError(ret.threw)
       ELSE /\ resp' = [status |-> SuccessStatus(request.route), error |-> "none"]
            /\ pc' = "done"
    /\ UNCHANGED <<dbVars, request, resLocals, stage, log, callVars, sqlVars, mwVars>>

\* a test calls a model operation directly
DirectCall ==
    /\ pc = "idle"
    /\ \E c \in DirectCalls :
          /\ c.op = "create" => nextId <= MaxId
          /\ call' = [op |-> c.op, args |-> c.args,
                      step |-> IF c.op \in {"create", "get"} THEN "select" ELSE "begin",
                      company |-> None]
    /\ pc' = "model"
    /\ ret' = None /\ stmts' = 0 /\ jobs0' = jobs
    /\ UNCHANGED <<dbVars, request, resLocals, stage, resp, log, sqlVars, mwVars>>

\* the request or the direct call is over
Finish ==
    /\ pc = "done" \/ (pc = "returned" /\ request = None)
    /\ request' = None /\ resLocals' = EmptyLocals /\ pc' = "idle" /\ stage' = 0
    /\ resp' = None /\ log' = <<>>
    /\ call' = None /\ ret' = None /\ stmts' = 0 /\ jobs0' = jobs
    /\ UNCHANGED <<dbVars, sqlVars, mwVars>>

\* the tables as the tests seed them
SeedCompanies ==
    { [handle |-> "c1", name |-> "C1", num_employees |-> 1],
      [handle |-> "c2", name |-> "C2", num_employees |-> 2] }

SeedJobs ==
    { [id |-> 1, title |-> "Dev", salary |-> 100, equity |-> 50,
       company_handle |-> "c1"] }

Init ==
    /\ companies = SeedCompanies
    /\ jobs = SeedJobs
    /\ nextId = 2
    /\ request = None /\ resLocals = EmptyLocals /\ pc = "idle" /\ stage = 0
    /\ resp = None /\ log = <<>>
    /\ call = None /\ ret = None /\ stmts = 0 /\ jobs0 = SeedJobs
    /\ SqlUnused
    /\ MwUnused


(***************************************************************************)
(* Properties of the routes and of the Job model                           *)
(***************************************************************************)
CallIs(op) == call # None /\ call.op = op
CallEnded(op) == CallIs(op) /\ ret # None

\* C2: sqlForPartialUpdate with an empty object throws BadRequestError under
\* every column map; so Job.update(id, {}) ends with BadRequestError before
\* it has sent any statement, and every stored job is as it was.
C2_EmptyUpdateRejected ==
    /\ \A m \in JsToSqlMaps :
          sqlForPartialUpdate(<<>>, m).threw = "BadRequestError"
    /\ (CallEnded("update") /\ call.args.data = <<>>) =>
          /\ ret.threw = "BadRequestError"
          /\ stmts = 0
          /\ jobs = jobs0

\* a direct Job.update of a stored job with {} has ended
C2_Witness ==
    /\ CallEnded("update")
    /\ request = None
    /\ call.args.data = <<>>
    /\ \E j \in jobs : j.id = call.args.id

JobMutatingRoutes == {"POST /jobs", "PATCH /jobs/:id", "DELETE /jobs/:id"}

\* the request carries a verifying credential of an admin
AdminRequest(rq) == CredentialVerifies(rq) /\ rq.token.claims.isAdmin

\* C8: a POST /jobs, PATCH /jobs/:id or DELETE /jobs/:id request of an
\* anonymous caller or of a logged-in non-admin never changes the stored
\* jobs and is answered with 401; Job.create, Job.update and Job.delete are
\* reached from a route only with an admin in res.locals.
C8_OnlyAdminsMutateJobs ==
    /\ (request # None /\ request.route \in JobMutatingRoutes
          /\ ~AdminRequest(request)) =>
          /\ jobs = jobs0
          /\ call = None
          /\ pc = "done" => resp.status = 401
    /\ (request # None /\ call # None
          /\ call.op \in {"create", "update", "delete"}) =>
          HasUser(resLocals) /\ resLocals.user.isAdmin

\* a logged-in non-admin's PATCH has been answered
C8_Witness ==
    /\ request # None
    /\ pc = "done"
    /\ request.route = "PATCH /jobs/:id"
    /\ CredentialVerifies(request)
    /\ ~request.token.claims.isAdmin
    /\ resp.status = 401

\* the authorization each route's documentation requires
RequiredChecks(route) ==
    CASE route \in JobMutatingRoutes -> {"ensureLoggedIn", "ensureIsAdmin"}
      [] route = "POST /users/:username/jobs/:id" ->
            {"ensureLoggedIn", "ensureIsAdminOrSelf"}
      [] OTHER -> {}

ModelOps == {"create", "findAll", "get", "update", "delete", "applyForJob"}

\* C9: within one request authenticateJWT runs exactly once and first, then
\* the route's checks with ensureLoggedIn ahead of ensureIsAdmin or
\* ensureIsAdminOrSelf, each once; the model operation starts only after
\* every check the route requires has passed, and after a stage has failed
\* no later check and no model operation runs.
C9_StagesInOrder ==
    request # None =>
        LET n == Len(log)
            At(name) == { i \in 1..n : log[i].stage = name }
        IN  /\ pc # "authenticateJWT" => 1 \in At("authenticateJWT")
            /\ At("authenticateJWT") \subseteq {1}
            /\ \A c \in {"ensureLoggedIn", "ensureIsAdmin", "ensureIsAdminOrSelf"} :
                  Cardinality(At(c)) <= 1
            /\ \A i \in At("ensureIsAdmin") \cup At("ensureIsAdminOrSelf") :
                  \E k \in At("ensureLoggedIn") : k < i
            /\ \A i \in 1..n : \A k \in 1..(i - 1) : log[k].err = "none"
            /\ \A i \in 1..n :
                  log[i].stage \in ModelOps =>
                      \A c \in RequiredChecks(request.route) :
                          \E k \in At(c) : k < i /\ log[k].err = "none"
            /\ call # None => \E i \in At(call.op) : TRUE
            /\ stmts > 0 => call # None

\* an admin's PATCH has gone through every stage and been answered
C9_Witness ==
    /\ request # None
    /\ pc = "done"
    /\ request.route = "PATCH /jobs/:id"
    /\ resp.status = 200
    /\ Len(log) = 5

\* C10: Job.create with a companyHandle that matches no company ends with
\* BadRequestError and inserts nothing: the stored jobs are those from
\* before the call.
C10_CreateUnknownCompany ==
    (CallIs("create")
       /\ ~\E c \in companies : c.handle = call.args.companyHandle) =>
        /\ jobs = jobs0
        /\ ret # None => ret.threw = "BadRequestError"

\* a direct Job.create with an unknown handle has ended
C10_Witness ==
    /\ CallEnded("create")
    /\ request = None
    /\ call.args.companyHandle = "c9"
    /\ ret.threw = "BadRequestError"

(***************************************************************************)
(* Properties of Job.update, Job.get and Job.delete                        *)
(***************************************************************************)
\* the stored job with this id, None when there is none
JobWithId(table, id) ==
    IF \E j \in table : j.id = id THEN CHOOSE j \in table : j.id = id ELSE None

\* C11: when Job.update of a stored job with data over title, salary and
\* equity has returned, the job has the supplied value (null included) in
\* every field the data has and its earlier value in every other field, its
\* id and company_handle are the earlier ones, every other job is as it was,
\* and the returned row is the job as it is stored now.
C11_UpdateFrame ==
    (CallEnded("update") /\ ret.threw = "none") =>
        LET data == call.args.data
            old == JobWithId(jobs0, call.args.id)
            new == JobWithId(jobs, call.args.id)
        IN  /\ old # None /\ new # None
            /\ \A k \in JobDataKeys :
                  new[ColumnFor(JobJsToSql, k)] =
                      IF Has(data, k) THEN Get(data, k) ELSE old[ColumnFor(JobJsToSql, k)]
            /\ new.id = old.id
            /\ new.company_handle = old.company_handle
            /\ jobs \ {new} = jobs0 \ {old}
            /\ Cardinality(jobs) = Cardinality(jobs0)
            /\ ret.value = [id |-> new.id, title |-> new.title,
                            salary |-> new.salary, equity |-> new.equity,
                            companyHandle |-> new.company_handle]

\* a direct Job.update with {title: "New", equity: null} of one of two
\* stored jobs has returned
C11_Witness ==
    /\ CallEnded("update")
    /\ request = None
    /\ ret.threw = "none"
    /\ Has(call.args.data, "title") /\ ~Has(call.args.data, "salary")
    /\ Get(call.args.data, "equity") = Null
    /\ Cardinality(jobs) = 2
    /\ JobWithId(jobs, call.args.id).salary = 100

\* the ids the sequence has handed out whose job is no longer in the table:
\* rows leave jobs by Job.delete alone
DeletedIds(table) == { i \in 1..(nextId - 1) : JobWithId(table, i) = None }

\* C12: Job.get, Job.update with non-empty data and Job.delete with an id
\* that matches no stored job end with NotFoundError and leave the stored
\* jobs as they were; once Job.delete(id) has succeeded the job is gone, so
\* a later Job.get(id) or Job.delete(id) ends with NotFoundError.
C12_NotFound ==
    /\ (call # None /\ call.op \in {"get", "update", "delete"} /\ ret # None
          /\ JobWithId(jobs0, call.args.id) = None
          /\ (call.op = "update" => call.args.data # <<>>)) =>
          /\ ret.threw = "NotFoundError"
          /\ jobs = jobs0
    /\ (CallEnded("delete") /\ ret.threw = "none") =>
          /\ JobWithId(jobs0, call.args.id) # None
          /\ call.args.id \in DeletedIds(jobs)
          /\ jobs = jobs0 \ {JobWithId(jobs0, call.args.id)}
    /\ (call # None /\ call.op \in {"get", "delete"} /\ ret # None
          /\ call.args.id \in DeletedIds(jobs0)) =>
          ret.threw = "NotFoundError"

\* a direct Job.delete of a job that an earlier Job.delete removed has ended
C12_Witness ==
    /\ CallEnded("delete")
    /\ request = None
    /\ call.args.id \in DeletedIds(jobs0)
    /\ ret.threw = "NotFoundError"

(***************************************************************************)
(* Text: a string as the sequence of its characters; a fixed piece of SQL  *)
(* that the code writes out is one element of the sequence                 *)
(***************************************************************************)
MaxTextLen == 2         \* the longest filter text that is tried

TextChars == {"d", "'", "\\"}

Texts == UNION { [1..n -> TextChars] : n \in 0..MaxTextLen }

\* the numbers that are tried as bounds, and their text
FilterNumbers == {0, 1, 2, 100, 200}
NumberText(n) == <<ToString(n)>>

(***************************************************************************)
(* pg-format: format(fmt, value) with one %L                               *)
(***************************************************************************)
\* the characters of a literal with each quote and each backslash doubled
RECURSIVE QuotedChars(_)
QuotedChars(literal) ==
    IF literal = <<>> THEN <<>>
    ELSE (IF Head(literal) \in {"'", "\\"}
          THEN <<Head(literal), Head(literal)>>
          ELSE <<Head(literal)>>) \o QuotedChars(Tail(literal))

\* the value's text between quotes as it is
quoteLiteral_NoEscape(literal) == <<"'">> \o literal \o <<"'">>

\* %L: the value's text between quotes, E'...' when it has a backslash
quoteLiteral(literal) ==
    LET hasBackslash == \E i \in 1..Len(literal) : literal[i] = "\\"
        quoted == <<"'">> \o QuotedChars(literal) \o <<"'">>
    IN  IF hasBackslash THEN <<"E">> \o quoted ELSE quoted

\* format("<before> %L", value)
format(before, literal) == <<before>> \o quoteLiteral(literal)

\* `%${text}%`
Contains(text) == <<"%">> \o text \o <<"%">>

\* conditions.join(sep)
RECURSIVE JoinWith(_, _)
JoinWith(conditions, sep) ==
    IF Len(conditions) = 0 THEN <<>>
    ELSE IF Len(conditions) = 1 THEN conditions[1]
    ELSE conditions[1] \o <<sep>> \o JoinWith(Tail(conditions), sep)

(***************************************************************************)
(* The database reading a statement's WHERE clause                         *)
(***************************************************************************)
DropFirst(text, n) == SubSeq(text, n + 1, Len(text))

\* a string constant from after its opening quote: '' is a quote, the first
\* single quote ends it; in E'...' a backslash takes the next character
RECURSIVE ScanLiteral(_, _, _)
ScanLiteral(rest, esc, acc) ==
    IF rest = <<>> THEN [closed |-> FALSE, chars |-> acc, rest |-> <<>>]
    ELSE IF rest[1] = "'"
         THEN IF Len(rest) >= 2 /\ rest[2] = "'"
              THEN ScanLiteral(DropFirst(rest, 2), esc, Append(acc, "'"))
              ELSE [closed |-> TRUE, chars |-> acc, rest |-> Tail(rest)]
    ELSE IF esc /\ rest[1] = "\\"
         THEN IF Len(rest) >= 2
              THEN ScanLiteral(DropFirst(rest, 2), esc, Append(acc, rest[2]))
              ELSE [closed |-> FALSE, chars |-> acc, rest |-> <<>>]
    ELSE ScanLiteral(Tail(rest), esc, Append(acc, rest[1]))

\* the tokens of a text: string constants with their value, and SQL
RECURSIVE SqlLex(_)
SqlLex(text) ==
    IF text = <<>> THEN <<>>
    ELSE LET isE == Len(text) >= 2 /\ text[1] = "E" /\ text[2] = "'"
             s == IF isE THEN ScanLiteral(DropFirst(text, 2), TRUE, <<>>)
                  ELSE ScanLiteral(Tail(text), FALSE, <<>>)
         IN  IF isE \/ text[1] = "'"
             THEN <<[kind |-> IF s.closed THEN "string" ELSE "unterminated",
                     chars |-> s.chars]>> \o SqlLex(s.rest)
             ELSE <<[kind |-> "sql", chars |-> <<text[1]>>]>> \o SqlLex(Tail(text))

\* the comparisons a WHERE clause of findAll is made of: the SQL before the
\* constant, the column and the operator
Comparisons ==
    { [sql |-> "title ILIKE ", col |-> "title", op |-> "ILIKE"],
      [sql |-> "salary >= ", col |-> "salary", op |-> ">="],
      [sql |-> "name ILIKE ", col |-> "name", op |-> "ILIKE"],
      [sql |-> "num_employees >= ", col |-> "num_employees", op |-> ">="],
      [sql |-> "num_employees <= ", col |-> "num_employees", op |-> "<="] }

\* the predicates without a constant from the caller
FixedPredicates == {"equity >= 0", "(equity = 0 OR equity = NULL)"}

BadPredicate == [col |-> "", op |-> "bad", arg |-> <<>>]

\* the number a constant is cast to for a numeric column
NumberOf(chars) ==
    IF \E n \in FilterNumbers : NumberText(n) = chars
    THEN CHOOSE n \in FilterNumbers : NumberText(n) = chars
    ELSE Undefined

\* predicate [AND predicate]... from the tokens; anything else is no
\* condition list the database accepts as the one the code meant
RECURSIVE ParseConditions(_)
ParseConditions(toks) ==
    LET sql == IF toks # <<>> /\ toks[1].kind = "sql" THEN toks[1].chars[1] ELSE ""
        More(rest) ==
            IF rest = <<>> THEN <<>>
            ELSE IF rest[1].kind = "sql" /\ rest[1].chars = <<" AND ">>
                    /\ Len(rest) >= 2
                 THEN ParseConditions(Tail(rest))
            ELSE <<BadPredicate>>
    IN  IF sql \in FixedPredicates
        THEN <<[col |-> "equity", op |-> sql, arg |-> <<>>]>> \o More(Tail(toks))
        ELSE IF (\E c \in Comparisons : c.sql = sql)
                /\ Len(toks) >= 2 /\ toks[2].kind = "string"
        THEN LET c == CHOOSE x \in Comparisons : x.sql = sql
             IN  <<[col |-> c.col, op |-> c.op, arg |-> toks[2].chars]>>
                     \o More(DropFirst(toks, 2))
        ELSE <<BadPredicate>>

\* the predicates of a WHERE clause; no clause, no predicate
ParseWhere(whereClause) ==
    IF whereClause = <<>> THEN <<>>
    ELSE IF whereClause[1] = "WHERE " /\ Len(whereClause) >= 2
         THEN ParseConditions(SqlLex(Tail(whereClause)))
    ELSE <<BadPredicate>>

WhereAccepted(whereClause) ==
    \A i \in 1..Len(ParseWhere(whereClause)) :
        LET p == ParseWhere(whereClause)[i]
        IN  /\ p.op # "bad"
            /\ p.op \in {">=", "<="} => NumberOf(p.arg) # Undefined

Lower(c) ==
    CASE c = "D" -> "d"
      [] c = "O" -> "o"
      [] c = "C" -> "c"
      [] OTHER   -> c

\* s ILIKE p: % is any text, _ any character, a backslash takes the next
\* character as it is, letters match in either case
RECURSIVE ILike(_, _)
ILike(s, p) ==
    IF p = <<>> THEN s = <<>>
    ELSE IF p[1] = "%"
         THEN ILike(s, Tail(p)) \/ (s # <<>> /\ ILike(Tail(s), p))
    ELSE IF p[1] = "_" THEN s # <<>> /\ ILike(Tail(s), Tail(p))
    ELSE IF p[1] = "\\"
         THEN /\ Len(p) >= 2 /\ s # <<>>
              /\ Lower(s[1]) = Lower(p[2])
              /\ ILike(Tail(s), DropFirst(p, 2))
    ELSE s # <<>> /\ Lower(s[1]) = Lower(p[1]) /\ ILike(Tail(s), Tail(p))

\* SQL's three truth values
Or3(a, b) ==
    IF a = "true" \/ b = "true" THEN "true"
    ELSE IF a = "null" \/ b = "null" THEN "null" ELSE "false"
Bool3(b) == IF b THEN "true" ELSE "false"

\* a comparison that reads NULL as 0
Compare3_NullAsZero(a, op, b) ==
    LET x == IF a = Null THEN 0 ELSE a
        y == IF b = Null THEN 0 ELSE b
    IN  CASE op = ">=" -> Bool3(x >= y)
          [] op = "<=" -> Bool3(x <= y)
          [] OTHER     -> Bool3(x = y)

\* a comparison of two numbers, either of which may be NULL
Compare3(a, op, b) ==
    IF a = Null \/ b = Null THEN "null"
    ELSE CASE op = ">=" -> Bool3(a >= b)
           [] op = "<=" -> Bool3(a <= b)
           [] OTHER     -> Bool3(a = b)

\* the value of one predicate for one row
Holds3(row, p) ==
    CASE p.op = "ILIKE" -> Bool3(ILike(row[p.col], p.arg))
      [] p.op \in {">=", "<="} -> Compare3(row[p.col], p.op, NumberOf(p.arg))
      [] p.op = "equity >= 0" -> Compare3(row.equity, ">=", 0)
      [] p.op = "(equity = 0 OR equity = NULL)" ->
            Or3(Compare3(row.equity, "=", 0), Compare3(row.equity, "=", Null))
      [] OTHER -> "null"

\* SELECT ... FROM table WHERE predicates: the rows for which every
\* predicate is true
SelectWhere(table, predicates) ==
    { r \in table : \A i \in 1..Len(predicates) : Holds3(r, predicates[i]) = "true" }

(***************************************************************************)
(* models/job.js and models/company.js: findAll                            *)
(***************************************************************************)
\* the filters argument: left out, or an object
NoFilters == [given |-> FALSE, object |-> <<>>]
Filters(o) == [given |-> TRUE, object |-> o]

\* a text that counts as a condition whenever it is there
TextTruthy_Always(o, k) == Has(o, k)

\* a text read as a condition: the empty string is falsy
TextTruthy(o, k) == Has(o, k) /\ Get(o, k) # <<>>

\* hasEquity !== undefined && hasEquity ; hasEquity !== undefined && !hasEquity
FlagTrue(o, k) == Has(o, k) /\ Get(o, k)
FlagFalse(o, k) == Has(o, k) /\ ~Get(o, k)

\* Job.findAll: the conditions array after the if (filters) block
JobConditions(filters) ==
    IF ~filters.given THEN <<>>
    ELSE LET o == filters.object
         IN  (IF TextTruthy(o, "title")
              THEN <<format("title ILIKE ", Contains(Get(o, "title")))>> ELSE <<>>)
             \o (IF Truthy(Get(o, "minSalary"))
                 THEN <<format("salary >= ", NumberText(Get(o, "minSalary")))>>
                 ELSE <<>>)
             \o (IF FlagTrue(o, "hasEquity") THEN << <<"equity >= 0">> >>
                 ELSE IF FlagFalse(o, "hasEquity")
                      THEN << <<"(equity = 0 OR equity = NULL)">> >>
                 ELSE <<>>)

\* Company.findAll: the conditions array after the if (filters) block
CompanyConditions(filters) ==
    IF ~filters.given THEN <<>>
    ELSE LET o == filters.object
         IN  (IF TextTruthy(o, "nameLike")
              THEN <<format("name ILIKE ", Contains(Get(o, "nameLike")))>> ELSE <<>>)
             \o (IF Truthy(Get(o, "minEmployees"))
                 THEN <<format("num_employees >= ", NumberText(Get(o, "minEmployees")))>>
                 ELSE <<>>)
             \o (IF Truthy(Get(o, "maxEmployees"))
                 THEN <<format("num_employees <= ", NumberText(Get(o, "maxEmployees")))>>
                 ELSE <<>>)

\* the conditions joined with OR
WhereClause_Or(conditions) ==
    IF Len(conditions) > 0 THEN <<"WHERE ">> \o JoinWith(conditions, " OR ") ELSE <<>>

\* whereClause: 'WHERE ' + conditions.join(' AND ') if there are conditions
WhereClause(conditions) ==
    IF Len(conditions) > 0 THEN <<"WHERE ">> \o JoinWith(conditions, " AND ") ELSE <<>>

\* SELECT j.id, j.title, j.salary, j.equity, c.* FROM jobs j INNER JOIN
\* companies c ON c.handle = j.company_handle ${whereClause}, with the
\* company columns gathered into company
SelectJobsWithCompany(jobTable, companyTable, whereClause) ==
    UNION { { [id |-> j.id, title |-> j.title, salary |-> j.salary,
               equity |-> j.equity, company |-> CompanyColumns(c)] :
                c \in { x \in companyTable : x.handle = j.company_handle } } :
            j \in SelectWhere(jobTable, ParseWhere(whereClause)) }

\* SELECT handle, name, ... FROM companies ${whereClause} ORDER BY name
SelectCompanies(companyTable, whereClause) ==
    { CompanyColumns(c) : c \in SelectWhere(companyTable, ParseWhere(whereClause)) }

\* Job.findAll
JobFindAll ==
    /\ InModel("findAll", "begin")
    /\ stmts' = stmts + 1
    /\ LET whereClause == WhereClause(JobConditions(call.args))
       IN  IF ~WhereAccepted(whereClause)
           THEN Finished(Threw("DatabaseError"))
           ELSE Finished(Returned(SelectJobsWithCompany(jobs, companies, whereClause)))
    /\ UNCHANGED <<dbVars, call, request, resLocals, stage, resp, log, jobs0,
                   sqlVars, mwVars>>

\* Company.findAll
CompanyFindAll ==
    /\ InModel("Company.findAll", "begin")
    /\ stmts' = stmts + 1
    /\ LET whereClause == WhereClause(CompanyConditions(call.args))
       IN  IF ~WhereAccepted(whereClause)
           THEN Finished(Threw("DatabaseError"))
           ELSE Finished(Returned(SelectCompanies(companies, whereClause)))
    /\ UNCHANGED <<dbVars, call, request, resLocals, stage, resp, log, jobs0,
                   sqlVars, mwVars>>

(***************************************************************************)
(* routes/jobs.js: GET /jobs, and the calls of findAll that are tried      *)
(***************************************************************************)
JobFilterKeys == {"title", "minSalary", "hasEquity"}
CompanyFilterKeys == {"nameLike", "minEmployees", "maxEmployees"}

\* the orders in which an object can have some of the keys
KeyOrders(keys) ==
    UNION { { f \in [1..n -> keys] : Injective(f) } : n \in 0..Cardinality(keys) }

\* the object with the keys ks in this order: a text under textKey, a flag
\* under flagKey, numbers under the other keys
FilterObject(ks, textKey, t, flagKey, h, n) ==
    [i \in 1..Len(ks) |->
        [key |-> ks[i],
         val |-> IF ks[i] = textKey THEN t
                 ELSE IF ks[i] = flagKey THEN h
                 ELSE n[ks[i]]]]

JobFilters(texts, minSalaries) ==
    { FilterObject(ks, "title", t, "hasEquity", h, [k \in {"minSalary"} |-> m]) :
        ks \in KeyOrders(JobFilterKeys), t \in texts, m \in minSalaries, h \in BOOLEAN }

CompanyFilters(texts) ==
    { FilterObject(ks, "nameLike", t, "", FALSE,
                   [k \in {"minEmployees", "maxEmployees"} |->
                       IF k = "minEmployees" THEN lo ELSE hi]) :
        ks \in KeyOrders(CompanyFilterKeys), t \in texts, lo \in {0, 2}, hi \in {0, 1} }

\* the bodies of GET /jobs requests: filters, a negative minSalary, a key
\* that is no filter
GetJobsBodies ==
    JobFilters({<<"d">>, <<"'">>}, {0, 100, -1})
        \cup { <<[key |-> "companyHandle", val |-> <<"c", "1">>]>> }

FindRequests == { Request("GET /jobs", c, "", 0, b) : c \in Credentials, b \in GetJobsBodies }

FindCalls ==
    { [op |-> "findAll", args |-> a] :
        a \in {NoFilters} \cup { Filters(o) : o \in JobFilters(Texts, {0, 100}) } }
    \cup { [op |-> "Company.findAll", args |-> a] :
        a \in {NoFilters} \cup { Filters(o) : o \in CompanyFilters(Texts) } }

\* a GET /jobs request enters the application
FindArrive ==
    /\ pc = "idle"
    /\ \E r \in FindRequests : request' = r
    /\ resLocals' = EmptyLocals
    /\ pc' = "authenticateJWT"
    /\ stage' = 0
    /\ resp' = None /\ log' = <<>>
    /\ call' = None /\ ret' = None /\ stmts' = 0 /\ jobs0' = jobs
    /\ UNCHANGED <<dbVars, sqlVars, mwVars>>

\* jsonschema.validate(req.body, jobFilterSchema).valid
ValidJobFilter(body) == \A i \in 1..Len(body) : body[i].key \in JobFilterKeys

\* router.get("/", ...) up to the await of Job.findAll
HandleGetJobs ==
    /\ AtHandler("GET /jobs")
    /\ LET body == request.body
           minSalary == IF ValidJobFilter(body) THEN Get(body, "minSalary") ELSE Undefined
       IN  IF ~ValidJobFilter(body) THEN HandlerFails("BadRequestError")
           ELSE IF Truthy(minSalary) /\ JsLt(minSalary, 0)
                THEN HandlerFails("BadRequestError")
           ELSE HandlerCalls("findAll", Filters(body))
    /\ UNCHANGED <<dbVars, request, resLocals, stage, jobs0, sqlVars, mwVars>>

\* a test calls Job.findAll or Company.findAll directly
FindDirectCall ==
    /\ pc = "idle"
    /\ \E c \in FindCalls :
          call' = [op |-> c.op, args |-> c.args, step |-> "begin", company |-> None]
    /\ pc' = "model"
    /\ ret' = None /\ stmts' = 0 /\ jobs0' = jobs
    /\ UNCHANGED <<dbVars, request, resLocals, stage, resp, log, sqlVars, mwVars>>

\* the rows the tables can hold when findAll is called: jobs with positive,
\* zero and NULL equity, a title with a quote
FindJobRows ==
    { [id |-> 1, title |-> <<"D", "e", "v">>, salary |-> 100, equity |-> 50,
       company_handle |-> "c1"],
      [id |-> 2, title |-> <<"O", "'", "d">>, salary |-> 0, equity |-> 0,
       company_handle |-> "c1"],
      [id |-> 3, title |-> <<"D", "e", "v">>, salary |-> 200, equity |-> Null,
       company_handle |-> "c2"] }

FindCompanyRows ==
    { [handle |-> "c1", name |-> <<"C", "1">>, num_employees |-> 1],
      [handle |-> "c2", name |-> <<"C", "'", "d">>, num_employees |-> 2],
      [handle |-> "c3", name |-> <<"D", "3">>, num_employees |-> 0] }

FindInit ==
    /\ companies \in { FindCompanyRows, { c \in FindCompanyRows : c.handle # "c3" } }
    /\ jobs \in SUBSET FindJobRows
    /\ nextId = Cardinality(FindJobRows) + 1
    /\ request = None /\ resLocals = EmptyLocals /\ pc = "idle" /\ stage = 0
    /\ resp = None /\ log = <<>>
    /\ call = None /\ ret = None /\ stmts = 0 /\ jobs0 = jobs
    /\ SqlUnused
    /\ MwUnused

FindNext ==
    \/ FindArrive
    \/ Authenticate
    \/ HandleGetJobs
    \/ JobFindAll
    \/ CompanyFindAll
    \/ Reply
    \/ FindDirectCall
    \/ Finish

SpecFind == FindInit /\ [][FindNext]_vars

(***************************************************************************)
(* The application: the job routes, the Job model, the tests' calls        *)
(***************************************************************************)
Next ==
    \/ Arrive
    \/ Authenticate
    \/ Check
    \/ HandlePostJobs
    \/ HandleGetJobs
    \/ HandleGetJob
    \/ HandlePatchJob
    \/ HandleDeleteJob
    \/ HandleApplyForJob
    \/ JobCreateSelect
    \/ JobCreateInsert
    \/ JobFindAll
    \/ JobGet
    \/ JobUpdate
    \/ JobDelete
    \/ UserApplyForJob
    \/ Reply
    \/ DirectCall
    \/ Finish

Spec == Init /\ [][Next]_vars

(***************************************************************************)
(* Properties of Job.findAll and Company.findAll                           *)
(***************************************************************************)
FindOps == {"findAll", "Company.findAll"}
FindCalled == call # None /\ call.op \in FindOps
FindEnded == FindCalled /\ ret # None

\* the WHERE fragment the call in progress builds
CallWhere ==
    IF call.op = "findAll" THEN WhereClause(JobConditions(call.args))
    ELSE WhereClause(CompanyConditions(call.args))

\* the SQL that the code itself writes into a WHERE fragment
CodeSql ==
    {"WHERE ", " AND "} \cup FixedPredicates \cup { c.sql : c \in Comparisons }

\* the filter values of the call that go into the fragment, as texts, in the
\* order the code considers them
SuppliedLiterals ==
    LET o == call.args.object
        Lit(k, isText) ==
            IF isText
            THEN (IF TextTruthy(o, k) THEN <<Contains(Get(o, k))>> ELSE <<>>)
            ELSE (IF Truthy(Get(o, k)) THEN <<NumberText(Get(o, k))>> ELSE <<>>)
    IN  IF ~call.args.given THEN <<>>
        ELSE IF call.op = "findAll"
             THEN Lit("title", TRUE) \o Lit("minSalary", FALSE)
        ELSE Lit("nameLike", TRUE) \o Lit("minEmployees", FALSE)
                 \o Lit("maxEmployees", FALSE)

\* C13: whatever the filter values are (quotes and backslashes included),
\* the database reads the WHERE fragment as SQL that the code wrote plus one
\* string constant per filter value, each constant being exactly the value
\* (between % for a name or title): no character of a value ends its
\* constant or is read as SQL, and the statement is accepted.
C13_ValuesStayLiterals ==
    FindCalled =>
        LET toks == SqlLex(CallWhere)
            strings == SelectSeq(toks, LAMBDA t : t.kind # "sql")
        IN  /\ \A i \in 1..Len(toks) :
                  /\ toks[i].kind \in {"sql", "string"}
                  /\ toks[i].kind = "sql" => toks[i].chars[1] \in CodeSql
            /\ [i \in 1..Len(strings) |-> strings[i].chars] = SuppliedLiterals
            /\ WhereAccepted(CallWhere)
            /\ ret # None => ret.threw = "none"

\* Job.findAll with a title filter that starts with a quote has returned the
\* job whose title has the quote
C13_Witness ==
    /\ FindEnded
    /\ call.op = "findAll"
    /\ TextTruthy(call.args.object, "title")
    /\ Get(call.args.object, "title") = <<"'", "d">>
    /\ ret.threw = "none"
    /\ ret.value # {}

\* every stored row has come back: each job with its company, each company
AllRowsReturned ==
    /\ ret.threw = "none"
    /\ IF call.op = "findAll"
       THEN /\ { r.id : r \in ret.value } = { j.id : j \in jobs }
            /\ Cardinality(ret.value) = Cardinality(jobs)
       ELSE ret.value = { CompanyColumns(c) : c \in companies }

\* JavaScript's falsy values under a key: no value, "", 0, null, false
TextFalsy(o, k) == ~Has(o, k) \/ Get(o, k) = <<>>
NumberFalsy(o, k) == Get(o, k) \in {0, Null, Undefined}
FlagFalsy(o, k) == ~Has(o, k) \/ Get(o, k) = FALSE

\* no filters argument, or every recognized key absent or falsy
NothingTruthy ==
    \/ ~call.args.given
    \/ LET o == call.args.object
       IN  IF call.op = "findAll"
           THEN /\ TextFalsy(o, "title")
                /\ NumberFalsy(o, "minSalary")
                /\ FlagFalsy(o, "hasEquity")
           ELSE /\ TextFalsy(o, "nameLike")
                /\ NumberFalsy(o, "minEmployees")
                /\ NumberFalsy(o, "maxEmployees")

\* C14 as stated: with filters absent, empty, or with every recognized key
\* absent or falsy the WHERE fragment is empty and every stored row is
\* returned.
C14_FalsyMeansNoWhere ==
    (FindCalled /\ NothingTruthy) =>
        /\ CallWhere = <<>>
        /\ ret # None => AllRowsReturned

\* C14 amended: with filters absent, empty, or with every text and numeric
\* key absent or falsy and hasEquity absent, the WHERE fragment is empty and
\* every stored row is returned; a hasEquity of false is falsy and still
\* adds its predicate.
C14_NoActiveFilterNoWhere ==
    /\ (FindCalled /\ NothingTruthy
          /\ ~(call.op = "findAll" /\ Has(call.args.object, "hasEquity"))) =>
          /\ CallWhere = <<>>
          /\ ret # None => AllRowsReturned
    /\ (FindCalled /\ call.op = "findAll"
          /\ Has(call.args.object, "hasEquity")) =>
          CallWhere # <<>>

\* Job.findAll with {title: "", minSalary: 0} has returned all three jobs
C14_Witness ==
    /\ FindEnded
    /\ call.op = "findAll"
    /\ Has(call.args.object, "title") /\ Has(call.args.object, "minSalary")
    /\ ~Has(call.args.object, "hasEquity")
    /\ NothingTruthy
    /\ Cardinality(ret.value) = 3

\* the predicates the filters f of a findAll call make active, in the order
\* name or title, numeric bounds, flag
ActivePredicates(op, f) ==
    LET o == f.object
        Text(k, col) ==
            IF TextFalsy(o, k) THEN <<>>
            ELSE <<[col |-> col, op |-> "ILIKE", arg |-> Contains(Get(o, k))]>>
        Bound(k, col, cmp) ==
            IF NumberFalsy(o, k) THEN <<>>
            ELSE <<[col |-> col, op |-> cmp, arg |-> NumberText(Get(o, k))]>>
        Flag(k) ==
            IF ~Has(o, k) THEN <<>>
            ELSE <<[col |-> "equity",
                    op |-> IF Get(o, k) THEN "equity >= 0"
                           ELSE "(equity = 0 OR equity = NULL)",
                    arg |-> <<>>]>>
    IN  IF ~f.given THEN <<>>
        ELSE IF op = "findAll"
             THEN Text("title", "title") \o Bound("minSalary", "salary", ">=")
                      \o Flag("hasEquity")
        ELSE Text("nameLike", "name") \o Bound("minEmployees", "num_employees", ">=")
                 \o Bound("maxEmployees", "num_employees", "<=")

\* the filters with the same keys and values, the keys in the order ks
Reordered(f, ks) ==
    [f EXCEPT !.object = [i \in 1..Len(ks) |-> [key |-> ks[i], val |-> Get(f.object, ks[i])]]]

SameKeys(o, ks) ==
    /\ Len(ks) = Len(o)
    /\ { ks[i] : i \in 1..Len(ks) } = { o[i].key : i \in 1..Len(o) }

WhereOf(op, f) ==
    IF op = "findAll" THEN WhereClause(JobConditions(f))
    ELSE WhereClause(CompanyConditions(f))

\* the stored row a returned row was made from
StoredRow(r) ==
    IF call.op = "findAll" THEN CHOOSE j \in jobs : j.id = r.id
    ELSE CHOOSE c \in companies : c.handle = r.handle

\* C15: the WHERE fragment of findAll is, as the database reads it, the
\* active predicates in the order name or title, numeric bounds, flag, joined
\* with AND, whatever the order of the keys in the filters object; it starts
\* with WHERE exactly when a predicate is active and is empty otherwise; and
\* every returned row satisfies every active predicate.
C15_ConjunctionInFixedOrder ==
    FindCalled =>
        LET active == ActivePredicates(call.op, call.args)
            keys == IF call.op = "findAll" THEN JobFilterKeys ELSE CompanyFilterKeys
        IN  /\ ParseWhere(CallWhere) = active
            /\ Len(active) >= 1 <=> (CallWhere # <<>> /\ Head(CallWhere) = "WHERE ")
            /\ Len(active) = 0 <=> CallWhere = <<>>
            /\ Len(SelectSeq(CallWhere, LAMBDA x : x = " AND ")) =
                  IF Len(active) = 0 THEN 0 ELSE Len(active) - 1
            /\ \A ks \in KeyOrders(keys) :
                  SameKeys(call.args.object, ks) =>
                      WhereOf(call.op, Reordered(call.args, ks)) = CallWhere
            /\ ret # None =>
                  /\ ret.threw = "none"
                  /\ \A r \in ret.value : \A i \in 1..Len(active) :
                        Holds3(StoredRow(r), active[i]) = "true"

\* Job.findAll with {hasEquity: true, minSalary: 100, title: "d"} has
\* returned a job
C15_Witness ==
    /\ FindEnded
    /\ call.op = "findAll"
    /\ ObjectKeys(call.args.object) = <<"hasEquity", "minSalary", "title">>
    /\ Len(ActivePredicates(call.op, call.args)) = 3
    /\ ret.value # {}

\* Job.findAll has ended and of its filters none but hasEquity is active
OnlyHasEquity(flag) ==
    /\ FindEnded
    /\ call.op = "findAll"
    /\ call.args.given
    /\ Has(call.args.object, "hasEquity")
    /\ Get(call.args.object, "hasEquity") = flag
    /\ TextFalsy(call.args.object, "title")
    /\ NumberFalsy(call.args.object, "minSalary")

ReturnedIds == { r.id : r \in ret.value }

\* C16: a GET /jobs request whose body has hasEquity true is answered with
\* jobs whose equity is greater than 0 only.
C16_HasEquityTruePositiveOnly ==
    (request # None /\ request.route = "GET /jobs" /\ pc = "done"
       /\ resp.status = 200 /\ Has(request.body, "hasEquity")
       /\ Get(request.body, "hasEquity") = TRUE) =>
        \A r \in ret.value : r.equity # Null /\ r.equity > 0

\* C17 as stated: Job.findAll with hasEquity true as its only active filter
\* returns every stored job, the jobs with equity zero included.
C17_HasEquityTrueAllRows ==
    OnlyHasEquity(TRUE) => AllRowsReturned

\* C17 amended: Job.findAll with hasEquity true returns only jobs whose
\* equity is not NULL and at least 0; as the only active filter it returns
\* exactly these, the jobs with equity zero included, and no job whose
\* equity is NULL.
C17_HasEquityTrueNonNegative ==
    /\ (FindEnded /\ call.op = "findAll" /\ FlagTrue(call.args.object, "hasEquity")) =>
          /\ ret.threw = "none"
          /\ \A r \in ret.value : r.equity # Null /\ r.equity >= 0
    /\ OnlyHasEquity(TRUE) =>
          /\ ReturnedIds = { j.id : j \in { x \in jobs : x.equity # Null /\ x.equity >= 0 } }
          /\ Cardinality(ret.value) = Cardinality(ReturnedIds)

\* Job.findAll({hasEquity: true}) over jobs with equity 0.5, 0 and NULL has
\* returned the first two
C17_Witness ==
    /\ OnlyHasEquity(TRUE)
    /\ request = None
    /\ jobs = FindJobRows
    /\ ReturnedIds = {1, 2}

\* C18: Job.findAll with hasEquity false as its only active filter returns
\* exactly the jobs whose equity is 0 or NULL; with hasEquity absent the
\* WHERE fragment has no predicate on equity.
C18_HasEquityFalseNoEquity ==
    /\ OnlyHasEquity(FALSE) =>
          /\ ret.threw = "none"
          /\ ReturnedIds = { j.id : j \in { x \in jobs : x.equity = 0 \/ x.equity = Null } }
    /\ (FindCalled /\ call.op = "findAll" /\ ~Has(call.args.object, "hasEquity")) =>
          \A i \in 1..Len(ParseWhere(CallWhere)) :
              ParseWhere(CallWhere)[i].col # "equity"

\* the minimum bound key of the model called, and the column it bounds
MinKey == IF call.op = "findAll" THEN "minSalary" ELSE "minEmployees"
MinColumn == IF call.op = "findAll" THEN "salary" ELSE "num_employees"

\* the object without the key k
Without(o, k) == SelectSeq(o, LAMBDA e : e.key # k)

\* the predicates on the bounded column with >= that the database reads
MinPredicates ==
    SelectSeq(ParseWhere(CallWhere), LAMBDA p : p.col = MinColumn /\ p.op = ">=")

\* C19: findAll's WHERE fragment has the predicate 'column >= value' for
\* minSalary (jobs) or minEmployees (companies) exactly when the key is there
\* with a truthy value, and then every returned row has at least that value
\* in the column; with a value of 0 the fragment, and so the result, is the
\* one of the same filters without the key.
C19_MinBoundOnlyWhenTruthy ==
    FindCalled =>
        LET o == call.args.object
            v == Get(o, MinKey)
        IN  /\ MinPredicates =
                  IF NumberFalsy(o, MinKey) THEN <<>>
                  ELSE <<[col |-> MinColumn, op |-> ">=", arg |-> NumberText(v)]>>
            /\ (ret # None /\ ~NumberFalsy(o, MinKey)) =>
                  /\ ret.threw = "none"
                  /\ \A r \in ret.value :
                        StoredRow(r)[MinColumn] # Null /\ StoredRow(r)[MinColumn] >= v
            /\ (Has(o, MinKey) /\ v = 0) =>
                  LET omitted == Filters(Without(o, MinKey))
                  IN  /\ CallWhere = WhereOf(call.op, omitted)
                      /\ ret # None =>
                            /\ ret.threw = "none"
                            /\ ret.value =
                                  IF call.op = "findAll"
                                  THEN SelectJobsWithCompany(jobs, companies,
                                           WhereOf(call.op, omitted))
                                  ELSE SelectCompanies(companies, WhereOf(call.op, omitted))

\* Job.findAll({minSalary: 0}) over three jobs, one of them with salary 0,
\* has returned all three
C19_Witness ==
    /\ FindEnded
    /\ call.op = "findAll"
    /\ ObjectKeys(call.args.object) = <<"minSalary">>
    /\ Get(call.args.object, "minSalary") = 0
    /\ ReturnedIds = {1, 2, 3}

(***************************************************************************)
(* Properties of the range checks of the job routes                        *)
(***************************************************************************)
\* a salary below 0, or an equity below 0 or above 1, in the object
SalaryNegative(o) == Has(o, "salary") /\ Get(o, "salary") < 0
EquityOutOfRange(o) ==
    Has(o, "equity") /\ (Get(o, "equity") < 0 \/ Get(o, "equity") > EquityOne)

\* C21: a POST /jobs request of an admin whose body has a negative salary or
\* an equity below 0 or above 1 is answered with 400, calls no model
\* operation and leaves the stored jobs as they were; a GET /jobs request
\* with a negative minSalary is answered with 400 and sends no statement.
C21_OutOfRangeRejected ==
    /\ (request # None /\ request.route = "POST /jobs" /\ AdminRequest(request)
          /\ (SalaryNegative(request.body) \/ EquityOutOfRange(request.body))) =>
          /\ call = None
          /\ jobs = jobs0
          /\ pc = "done" => resp.status = 400
    /\ (request # None /\ request.route = "GET /jobs"
          /\ Has(request.body, "minSalary") /\ Get(request.body, "minSalary") < 0) =>
          /\ call = None
          /\ stmts = 0
          /\ pc = "done" => resp.status = 400

\* an admin's POST /jobs with a complete body whose only fault is an equity
\* below 0 has been answered with 400
C21_Witness ==
    /\ request # None
    /\ request.route = "POST /jobs"
    /\ AdminRequest(request)
    /\ ValidJobNew(request.body)
    /\ ~SalaryNegative(request.body)
    /\ Get(request.body, "equity") < 0
    /\ Get(request.body, "companyHandle") = "c1"
    /\ pc = "done"
    /\ resp.status = 400

\* C22: every stored job has an equity that is NULL or from 0 to 1 and a
\* salary that is not negative, whatever POST /jobs and PATCH /jobs/:id
\* requests have been accepted; a PATCH whose body has a negative salary or
\* an equity below 0 or above 1 never reaches Job.update.
C22_StoredJobsInRange ==
    /\ \A j \in jobs :
          /\ j.equity = Null \/ (j.equity >= 0 /\ j.equity <= EquityOne)
          /\ j.salary >= 0
    /\ (request # None /\ request.route = "PATCH /jobs/:id"
          /\ (SalaryNegative(request.body) \/ EquityOutOfRange(request.body))) =>
          /\ call = None
          /\ jobs = jobs0
          /\ pc = "done" => resp.status \in {400, 401}

\* an admin's PATCH with salary 0 and equity 0 has changed the job with
\* id 2
C22_Witness ==
    /\ request # None
    /\ request.route = "PATCH /jobs/:id"
    /\ pc = "done"
    /\ resp.status = 200
    /\ Get(request.body, "salary") = 0
    /\ Get(request.body, "equity") = 0
    /\ request.params.id = 2
    /\ jobs # jobs0

(***************************************************************************)
(* Model operations running at the same time: each process is a call whose *)
(* awaits let the statements of the other calls in between.  Here pc, call, *)
(* ret and stmts are functions of the process.                             *)
(***************************************************************************)
MaxProcs == 2           \* the calls that can be in progress at once

Procs == 1..MaxProcs

RaceHandles == {"c1", "c3"}

\* the calls that are tried: Company.create, Company.remove and Job.create
\* for a stored and for a new handle
RaceCalls ==
    { [op |-> "Company.create",
       args |-> [handle |-> h, name |-> "New", numEmployees |-> 3]] : h \in RaceHandles }
    \cup { [op |-> "Company.remove", args |-> [handle |-> h]] : h \in RaceHandles }
    \cup { [op |-> "create",
            args |-> [title |-> "Dev", salary |-> 100, equity |-> 50,
                      companyHandle |-> h]] : h \in RaceHandles }

\* SELECT handle FROM companies WHERE handle = $1
SelectHandle(table, handle) == { [handle |-> c.handle] : c \in { x \in table : x.handle = handle } }

\* companies.handle is the primary key: an INSERT of a handle that is stored
\* fails
PrimaryKeyFree(table, handle) == ~\E c \in table : c.handle = handle

\* jobs.company_handle references companies: an INSERT of a job whose
\* company is not stored fails
ForeignKeyHolds(table, handle) == \E c \in table : c.handle = handle

\* process p ends its call with this result
RaceFinished(p, result) ==
    /\ ret' = [ret EXCEPT ![p] = result]
    /\ pc' = [pc EXCEPT ![p] = "returned"]

RaceAt(p, op, step) == pc[p] = "model" /\ call[p].op = op /\ call[p].step = step

RaceUnused == <<request, resLocals, stage, resp, log, jobs0, sqlVars, mwVars>>

\* a call begins
RaceStart(p) ==
    /\ pc[p] = "idle"
    /\ \E c \in RaceCalls :
          /\ c.op = "create" => nextId <= MaxId
          /\ call' = [call EXCEPT ![p] =
                        [op |-> c.op, args |-> c.args,
                         step |-> IF c.op = "Company.remove" THEN "begin" ELSE "select",
                         company |-> None]]
    /\ pc' = [pc EXCEPT ![p] = "model"]
    /\ stmts' = [stmts EXCEPT ![p] = 0]
    /\ UNCHANGED <<dbVars, ret, RaceUnused>>

\* Company.create up to its second await: the duplicate check
RaceCompanyCreateSelect(p) ==
    /\ RaceAt(p, "Company.create", "select")
    /\ stmts' = [stmts EXCEPT ![p] = @ + 1]
    /\ LET duplicateCheck == SelectHandle(companies, call[p].args.handle)
       IN  IF FirstRow(duplicateCheck) # None
           THEN /\ RaceFinished(p, Threw("BadRequestError"))
                /\ UNCHANGED call
           ELSE /\ call' = [call EXCEPT ![p].step = "insert"]
                /\ UNCHANGED <<ret, pc>>
    /\ UNCHANGED <<dbVars, RaceUnused>>

\* Company.create from the INSERT on
RaceCompanyCreateInsert(p) ==
    /\ RaceAt(p, "Company.create", "insert")
    /\ stmts' = [stmts EXCEPT ![p] = @ + 1]
    /\ LET a == call[p].args
           row == [handle |-> a.handle, name |-> a.name, num_employees |-> a.numEmployees]
       IN  IF PrimaryKeyFree(companies, a.handle)
           THEN /\ companies' = companies \cup {row}
                /\ RaceFinished(p, Returned(CompanyColumns(row)))
           ELSE /\ RaceFinished(p, Threw("DatabaseError"))
                /\ UNCHANGED companies
    /\ UNCHANGED <<jobs, nextId, call, RaceUnused>>

\* the jobs that reference the company
JobsOf(table, handle) == { j \in table : j.company_handle = handle }

\* Company.remove: DELETE FROM companies WHERE handle = $1 RETURNING handle.
\* What the foreign key of jobs does on the delete is the schema's choice:
\* the jobs of the company go with it, or the delete fails while there are
\* any.
RaceCompanyRemove(p) ==
    /\ RaceAt(p, "Company.remove", "begin")
    /\ stmts' = [stmts EXCEPT ![p] = @ + 1]
    /\ LET handle == call[p].args.handle
           removed == /\ companies' = { c \in companies : c.handle # handle }
                      /\ jobs' = jobs \ JobsOf(jobs, handle)
                      /\ RaceFinished(p, Returned(None))
           refused == /\ RaceFinished(p, Threw("DatabaseError"))
                      /\ UNCHANGED <<companies, jobs>>
       IN  IF ~\E c \in companies : c.handle = handle
           THEN /\ RaceFinished(p, Threw("NotFoundError"))
                /\ UNCHANGED <<companies, jobs>>
           ELSE IF JobsOf(jobs, handle) = {} THEN removed
           ELSE removed \/ refused
    /\ UNCHANGED <<nextId, call, RaceUnused>>

\* Job.create up to its second await: the company lookup
RaceJobCreateSelect(p) ==
    /\ RaceAt(p, "create", "select")
    /\ stmts' = [stmts EXCEPT ![p] = @ + 1]
    /\ LET getCompanyResult == SelectCompany(companies, call[p].args.companyHandle)
           company == FirstRow(getCompanyResult)
       IN  IF CompanyNotFound(company)
           THEN /\ RaceFinished(p, Threw("BadRequestError"))
                /\ UNCHANGED call
           ELSE /\ call' = [call EXCEPT ![p].step = "insert", ![p].company = company]
                /\ UNCHANGED <<ret, pc>>
    /\ UNCHANGED <<dbVars, RaceUnused>>

\* Job.create from the INSERT on; the sequence hands out an id whether or
\* not the row is accepted
RaceJobCreateInsert(p) ==
    /\ RaceAt(p, "create", "insert")
    /\ stmts' = [stmts EXCEPT ![p] = @ + 1]
    /\ nextId' = nextId + 1
    /\ LET a == call[p].args
           job == InsertedJob(nextId, <<a.title, a.salary, a.equity, a.companyHandle>>)
       IN  IF ForeignKeyHolds(companies, a.companyHandle)
           THEN /\ jobs' = jobs \cup {job}
                /\ RaceFinished(p, Returned([id |-> job.id, title |-> job.title,
                                             salary |-> job.salary, equity |-> job.equity,
                                             company |-> call[p].company]))
           ELSE /\ RaceFinished(p, Threw("DatabaseError"))
                /\ UNCHANGED jobs
    /\ UNCHANGED <<companies, call, RaceUnused>>

\* the caller has the result; the process is free for another call
RaceFinish(p) ==
    /\ pc[p] = "returned"
    /\ pc' = [pc EXCEPT ![p] = "idle"]
    /\ call' = [call EXCEPT ![p] = None]
    /\ ret' = [ret EXCEPT ![p] = None]
    /\ UNCHANGED <<dbVars, stmts, RaceUnused>>

RaceInit ==
    /\ companies = SeedCompanies
    /\ jobs = SeedJobs
    /\ nextId = 2
    /\ pc = [p \in Procs |-> "idle"]
    /\ call = [p \in Procs |-> None]
    /\ ret = [p \in Procs |-> None]
    /\ stmts = [p \in Procs |-> 0]
    /\ request = None /\ resLocals = EmptyLocals /\ stage = 0
    /\ resp = None /\ log = <<>> /\ jobs0 = SeedJobs
    /\ SqlUnused
    /\ MwUnused

RaceNext ==
    \E p \in Procs :
        \/ RaceStart(p)
        \/ RaceCompanyCreateSelect(p)
        \/ RaceCompanyCreateInsert(p)
        \/ RaceCompanyRemove(p)
        \/ RaceJobCreateSelect(p)
        \/ RaceJobCreateInsert(p)
        \/ RaceFinish(p)

SpecRace == RaceInit /\ [][RaceNext]_vars

(***************************************************************************)
(* Properties of calls running at the same time                            *)
(***************************************************************************)
RaceEnded(p, op) == pc[p] = "returned" /\ call[p].op = op

\* C23: whatever the interleaving of Company.create calls, at most one
\* company per handle is stored, and a Company.create that ends without
\* having inserted its company ends with BadRequestError.
C23_DuplicateCreateRejected ==
    /\ \A h \in RaceHandles : Cardinality({ c \in companies : c.handle = h }) <= 1
    /\ \A p \in Procs :
          (RaceEnded(p, "Company.create") /\ ret[p].threw # "none") =>
              ret[p].threw = "BadRequestError"

UpdateCompanyRows ==
    { [handle |-> "c1", name |-> "C1", description |-> "Desc1", num_employees |-> 1,
       logo_url |-> "http://c1.img"],
      [handle |-> "c2", name |-> "C2", description |-> "Desc2", num_employees |-> 2,
       logo_url |-> "http://c2.img"] }

UpdateJobRows ==
    { [id |-> 1, title |-> "Dev", salary |-> 100, equity |-> 50, company_handle |-> "c1"],
      [id |-> 2, title |-> "Ops", salary |-> 200, equity |-> Null, company_handle |-> "c2"] }

CompanyKeyLists ==
    { <<>>, <<"name">>, <<"numEmployees", "logoUrl">>,
      <<"logoUrl", "name", "numEmployees">> }

CompanyValues ==
    [k \in {"name", "numEmployees", "logoUrl"} |->
        CASE k = "name"         -> <<"New">>
          [] k = "numEmployees" -> <<10>>
          [] OTHER              -> <<"http://new.img">>]

UpdateCalls ==
    { [op |-> "update", args |-> [id |-> i, data |-> d]] :
        i \in Ids, d \in DirectUpdateData }
    \cup { [op |-> "Company.update", args |-> [handle |-> h, data |-> d]] :
             h \in {"c1", "c2", "c9"}, d \in Objects(CompanyKeyLists, CompanyValues) }

\* a test calls Job.update or Company.update
UpdateCall ==
    /\ pc = "idle"
    /\ \E c \in UpdateCalls :
          call' = [op |-> c.op, args |-> c.args, step |-> "begin", company |-> None]
    /\ pc' = "model"
    /\ ret' = None /\ stmts' = 0 /\ jobs0' = jobs
    /\ UNCHANGED <<dbVars, request, resLocals, stage, resp, log, sqlVars, mwVars>>

\* Company.update
CompanyUpdate ==
    /\ InModel("Company.update", "begin")
    /\ LET built == sqlForPartialUpdate(call.args.data, CompanyJsToSql)
           handleVarIdx == VarIdx(built.values)
           params == QueryValues(built.values, call.args.handle)
       IN  IF built.threw # "none"
           THEN /\ Finished(Threw(built.threw))
                /\ UNCHANGED <<companies, stmts>>
           ELSE /\ stmts' = stmts + 1
                /\ IF ~CompanyUpdateAccepted(built.setCols, handleVarIdx, params)
                   THEN /\ Finished(Threw("DatabaseError"))
                        /\ UNCHANGED companies
                   ELSE LET rows == CompanyUpdateReturning(companies, built.setCols,
                                                           handleVarIdx, params)
                            company == FirstRow(rows)
                        IN  /\ companies' = UpdatedCompanies(companies, built.setCols,
                                                             handleVarIdx, params)
                            /\ IF company = None
                               THEN Finished(Threw("NotFoundError"))
                               ELSE Finished(Returned(company))
    /\ UNCHANGED <<jobs, nextId, call, request, resLocals, stage, resp, log,
                   jobs0, sqlVars, mwVars>>

UpdateInit ==
    /\ companies = UpdateCompanyRows
    /\ jobs = UpdateJobRows
    /\ nextId = 3
    /\ request = None /\ resLocals = EmptyLocals /\ pc = "idle" /\ stage = 0
    /\ resp = None /\ log = <<>>
    /\ call = None /\ ret = None /\ stmts = 0 /\ jobs0 = UpdateJobRows
    /\ SqlUnused
    /\ MwUnused

UpdateNext ==
    \/ UpdateCall
    \/ JobUpdate
    \/ CompanyUpdate
    \/ Finish

SpecUpdate == UpdateInit /\ [][UpdateNext]_vars

(***************************************************************************)
(* Properties of the row selector of the updates                           *)
(***************************************************************************)
\* the numbers of the placeholders the assignments of a SET list use
AssignedNumbers(setCols) ==
    LET assignments == SplitAssignments(setCols)
    IN  { PlaceholderNumber(assignments[i][3]) : i \in 1..Len(assignments) }

\* the rows of before whose key is not this one are rows of after, and no
\* row was added or lost
OnlyKeyedRowChanged(before, after, keyColumn, key) ==
    /\ \A r \in before : r[keyColumn] # key => r \in after
    /\ Cardinality(after) = Cardinality(before)

UpdateSelector(op, jsToSql, key) ==
    InModel(op, "begin") =>
        LET data == call.args.data
            n == Len(ObjectKeys(data))
            built == sqlForPartialUpdate(data, jsToSql)
            params == QueryValues(built.values, key)
        IN  built.threw = "none" =>
              /\ PlaceholderNumber(VarIdx(built.values)) = n + 1
              /\ AssignedNumbers(built.setCols) = 1..n
              /\ (n + 1) \notin AssignedNumbers(built.setCols)
              /\ Len(params) = n + 1
              /\ params[n + 1] = key

\* C25: in Job.update and Company.update with n fields to set, the row
\* selector's placeholder is $(n+1) while the assignments use $1..$n, the
\* value list has n+1 entries with the id or handle last, and the statement
\* changes no row but the one whose key is that id or handle.
C25_SelectorAfterAssignments ==
    [][ /\ UpdateSelector("update", JobJsToSql, call.args.id)
        /\ UpdateSelector("Company.update", CompanyJsToSql, call.args.handle)
        /\ InModel("update", "begin") =>
              /\ OnlyKeyedRowChanged(jobs, jobs', "id", call.args.id)
              /\ companies' = companies
        /\ InModel("Company.update", "begin") =>
              /\ OnlyKeyedRowChanged(companies, companies', "handle", call.args.handle)
              /\ jobs' = jobs ]_vars

\* Company.update of c1 with three fields has returned: c1 carries the
\* three values and c2 is as it was
C25_Witness ==
    /\ CallEnded("Company.update")
    /\ ret.threw = "none"
    /\ call.args.handle = "c1"
    /\ ObjectKeys(call.args.data) = <<"logoUrl", "name", "numEmployees">>
    /\ [handle |-> "c1", name |-> "New", description |-> "Desc1", num_employees |-> 10,
        logo_url |-> "http://new.img"] \in companies
    /\ \E c \in UpdateCompanyRows : c.handle = "c2" /\ c \in companies

====
